---- MODULE Spec2Model ----
(***************************************************************************)
(* Ingestion state machine of the ESCO ingestion core: the staleness and   *)
(* decision logic (StateManagementService), the application service's      *)
(* should_run_ingestion / run_ingestion, the status record kept by the     *)
(* Weaviate client and the orchestrator's 12-step pipeline.                *)
(*                                                                         *)
(* Five specifications share the module:                                   *)
(*   SpecCalls  one call of a decision function on inputs drawn from       *)
(*              bounded sets (what the store client returned, the config,  *)
(*              the clock, the interpreter's ISO parser);                  *)
(*   Spec       competing invocations (processes) that decide and run the  *)
(*              pipeline against one shared store while time passes;       *)
(*   SpecStoreUp  Spec restricted to runs in which no store call raises;   *)
(*   SpecEntry  one invocation at a time through the application service   *)
(*              or through init_ingestion;                                 *)
(*   SpecWriters  concurrent set_ingestion_metadata calls, store call by   *)
(*              store call.                                                *)
(***************************************************************************)
EXTENDS Integers, Sequences, FiniteSets, TLC

VARIABLES
    args,       \* SpecCalls: the inputs of the call (op names the function)
    ret,        \* SpecCalls: what the call returned ([op |-> "none"] before)
    now,        \* Spec: the wall clock, datetime.utcnow(), in ticks
    store_faults, \* Spec: whether calls to the store may raise in this run
    meta,       \* Spec: the singleton Metadata object of the store
    objects,    \* Spec: the entity classes that hold at least one object
    pc,         \* Spec: each invocation's position
    local,      \* Spec: each invocation's locals of should_run_ingestion
    decision,   \* Spec: each invocation's IngestionDecision
    invoked,    \* Spec: the step functions each invocation has called, in order
    results,    \* Spec: run_complete_ingestion's results map, in insertion order
    entry,      \* Spec: the entry point each invocation's pipeline was started from
    raised,     \* Spec: the exception each invocation is handling ("" when none)
    issued,     \* Spec: the arguments of each invocation's last set_ingestion_metadata call
    result      \* Spec: what each invocation returned to its caller

callVars == <<args, ret>>
svcVars == <<entry, raised, issued, result>>
runVars == <<now, store_faults, meta, objects, pc, local, decision, invoked, results, svcVars>>
vars == <<args, ret, now, store_faults, meta, objects, pc, local, decision, invoked, results, svcVars>>

(***************************************************************************)
(* Bounds of the model.                                                    *)
(***************************************************************************)
MaxTime == 3          \* the clock and the stored timestamps range over 0..MaxTime
MaxThreshold == 2     \* staleness_threshold_seconds ranges over 1..MaxThreshold

Times == 0..MaxTime
Thresholds == 1..MaxThreshold

(***************************************************************************)
(* IngestionState and the status strings on the wire.                      *)
(***************************************************************************)
NOT_STARTED == "not_started"
IN_PROGRESS == "in_progress"
COMPLETED == "completed"
FAILED == "failed"
UNKNOWN == "unknown"
IngestionState == {NOT_STARTED, IN_PROGRESS, COMPLETED, FAILED, UNKNOWN}

\* A status_data dict may lack the key, or hold a string the mapping does not
\* know ("COMPLETED" is what the older tests store).
KeyAbsent == "<absent>"
StatusStrings == IngestionState \cup {"COMPLETED", KeyAbsent}

(***************************************************************************)
(* Timestamps.  A timestamp value is None, the empty string, or a string   *)
(* in one of three shapes:                                                 *)
(*   naive    datetime.isoformat() without zone, "2024-05-01T10:00:00.25"  *)
(*   zulu     the same followed by "Z", as set_ingestion_metadata writes   *)
(*   garbage  not an ISO-8601 date at all                                  *)
(* t is the instant the string denotes (0 when it denotes none).           *)
(***************************************************************************)
NoTimestamp == [form |-> "none", t |-> 0]
TimestampValues ==
    {NoTimestamp, [form |-> "empty", t |-> 0], [form |-> "garbage", t |-> 0]}
    \cup [form : {"naive", "zulu"}, t : Times]

\* Python truthiness of status_data.get('timestamp')
Truthy(ts) == ts.form \notin {"none", "empty"}

\* The interpreters setup.py admits (python_requires >= 3.10) differ in
\* datetime.fromisoformat: 3.10 rejects a trailing "Z", 3.11 and later accept
\* it and return an aware datetime.
PythonVersions == {"3.10", "3.11+"}

fromisoformat(ts, py) ==
    CASE ts.form = "naive" -> [ok |-> TRUE, aware |-> FALSE, t |-> ts.t]
      [] ts.form = "zulu" /\ py = "3.11+" -> [ok |-> TRUE, aware |-> TRUE, t |-> ts.t]
      [] OTHER -> [ok |-> FALSE, aware |-> FALSE, t |-> 0]    \* ValueError / TypeError

\* StateManagementService._is_timestamp_stale, with the clock read passed in.
\* utcnow() is naive: subtracting an aware datetime raises TypeError, which
\* the except clause turns into True like a ValueError of the parser.
is_timestamp_stale_except_false(ts, threshold_seconds, utcnow, py) ==
    LET parsed == fromisoformat(ts, py)
    IN  IF ~parsed.ok \/ parsed.aware THEN FALSE
        ELSE (utcnow - parsed.t) > threshold_seconds

is_timestamp_stale(ts, threshold_seconds, utcnow, py) ==
    LET parsed == fromisoformat(ts, py)
    IN  IF ~parsed.ok THEN TRUE
        ELSE IF parsed.aware THEN TRUE
        ELSE (utcnow - parsed.t) > threshold_seconds

status_mapping_without_completed(status_str) ==
    IF status_str \in IngestionState \ {COMPLETED} THEN status_str ELSE UNKNOWN

\* status_mapping.get(status_str, IngestionState.UNKNOWN)
status_mapping(status_str) ==
    IF status_str \in IngestionState THEN status_str ELSE UNKNOWN

\* status_data.get('status', 'unknown')
get_status(status_data) ==
    IF status_data.status = KeyAbsent THEN "unknown" ELSE status_data.status

\* StateManagementService.determine_ingestion_state
determine_ingestion_state(status_data, staleness_threshold_seconds, utcnow, py) ==
    LET status_str == get_status(status_data)
        timestamp_str == status_data.timestamp
        state == status_mapping(status_str)
    IN  IF state = IN_PROGRESS /\ Truthy(timestamp_str)
           /\ is_timestamp_stale(timestamp_str, staleness_threshold_seconds, utcnow, py)
        THEN UNKNOWN
        ELSE state

(***************************************************************************)
(* IngestionDecision.  A reason is the sequence of the words of the        *)
(* message; ", ".join(existing_classes) contributes the class names.       *)
(***************************************************************************)
IngestionDecision_force_never_required(should_run, reason, current_state, force_required, existing_classes, timestamp, is_stale) ==
    [should_run |-> should_run, reason |-> reason, current_state |-> current_state,
     force_required |-> FALSE, existing_classes |-> existing_classes,
     timestamp |-> timestamp, is_stale |-> is_stale]

IngestionDecision(should_run, reason, current_state, force_required, existing_classes, timestamp, is_stale) ==
    [should_run |-> should_run, reason |-> reason, current_state |-> current_state,
     force_required |-> force_required, existing_classes |-> existing_classes,
     timestamp |-> timestamp, is_stale |-> is_stale]

\* str.lower() of a word of a reason
Lower(w) ==
    CASE w = "Force" -> "force" [] w = "Ingestion" -> "ingestion"
      [] w = "Stale" -> "stale" [] w = "No" -> "no"
      [] w = "Non-interactive" -> "non-interactive"
      [] w = "Interactive" -> "interactive"
      [] OTHER -> w
\* "sub" in reason: the words of sub occur consecutively in reason
Contains(reason, sub) ==
    \E i \in 1..(Len(reason) - Len(sub) + 1) :
        \A j \in 1..Len(sub) : reason[i + j - 1] = sub[j]
ContainsLower(reason, sub) ==
    Contains([i \in DOMAIN reason |-> Lower(reason[i])], sub)

\* the same with the test of the mode inverted
make_ingestion_decision_modes_swapped(current_state, existing_classes, force_reingest, is_interactive, timestamp, is_stale) ==
    IF force_reingest THEN
        IngestionDecision(TRUE, <<"Force", "re-ingestion", "requested">>,
                          current_state, FALSE, existing_classes, timestamp, FALSE)
    ELSE IF current_state = COMPLETED THEN
        IngestionDecision(FALSE, <<"Ingestion", "already", "completed">>,
                          current_state, TRUE, existing_classes, timestamp, FALSE)
    ELSE IF current_state = IN_PROGRESS THEN
        IF ~is_stale THEN
            IngestionDecision(FALSE,
                <<"Ingestion", "currently", "in", "progress", "and", "not", "stale">>,
                current_state, TRUE, existing_classes, timestamp, FALSE)
        ELSE
            IngestionDecision(TRUE,
                <<"Stale", "in-progress", "ingestion", "detected,", "proceeding",
                  "with", "new", "ingestion">>,
                current_state, FALSE, existing_classes, timestamp, TRUE)
    ELSE IF existing_classes # <<>> /\ ~force_reingest THEN
        IF is_interactive THEN
            IngestionDecision(FALSE,
                <<"Non-interactive", "mode", "with", "existing", "data", "for", "classes:">>
                    \o existing_classes,
                current_state, TRUE, existing_classes, timestamp, FALSE)
        ELSE
            IngestionDecision(TRUE,
                <<"Interactive", "mode", "with", "existing", "data", "for", "classes:">>
                    \o existing_classes,
                current_state, FALSE, existing_classes, timestamp, FALSE)
    ELSE
        IngestionDecision(TRUE,
            <<"No", "existing", "data", "or", "force", "re-ingestion", "requested">>,
            current_state, FALSE, existing_classes, timestamp, FALSE)

\* StateManagementService.make_ingestion_decision: first match wins
make_ingestion_decision(current_state, existing_classes, force_reingest, is_interactive, timestamp, is_stale) ==
    IF force_reingest THEN
        IngestionDecision(TRUE, <<"Force", "re-ingestion", "requested">>,
                          current_state, FALSE, existing_classes, timestamp, FALSE)
    ELSE IF current_state = COMPLETED THEN
        IngestionDecision(FALSE, <<"Ingestion", "already", "completed">>,
                          current_state, TRUE, existing_classes, timestamp, FALSE)
    ELSE IF current_state = IN_PROGRESS THEN
        IF ~is_stale THEN
            IngestionDecision(FALSE,
                <<"Ingestion", "currently", "in", "progress", "and", "not", "stale">>,
                current_state, TRUE, existing_classes, timestamp, FALSE)
        ELSE
            IngestionDecision(TRUE,
                <<"Stale", "in-progress", "ingestion", "detected,", "proceeding",
                  "with", "new", "ingestion">>,
                current_state, FALSE, existing_classes, timestamp, TRUE)
    ELSE IF existing_classes # <<>> /\ ~force_reingest THEN
        IF ~is_interactive THEN
            IngestionDecision(FALSE,
                <<"Non-interactive", "mode", "with", "existing", "data", "for", "classes:">>
                    \o existing_classes,
                current_state, TRUE, existing_classes, timestamp, FALSE)
        ELSE
            IngestionDecision(TRUE,
                <<"Interactive", "mode", "with", "existing", "data", "for", "classes:">>
                    \o existing_classes,
                current_state, FALSE, existing_classes, timestamp, FALSE)
    ELSE
        IngestionDecision(TRUE,
            <<"No", "existing", "data", "or", "force", "re-ingestion", "requested">>,
            current_state, FALSE, existing_classes, timestamp, FALSE)

(***************************************************************************)
(* IngestionConfig, as far as the decision reads it, and the count probes. *)
(***************************************************************************)
DefaultClasses == <<"Occupation", "Skill", "ISCOGroup", "SkillCollection">>

\* A call's configured classes: the first one or two of the default list.
ClassLists == {SubSeq(DefaultClasses, 1, 1), SubSeq(DefaultClasses, 1, 2)}

Range(seq) == {seq[i] : i \in DOMAIN seq}

\* IngestionConfig.classes_to_ingest
classes_to_ingest(config) ==
    IF config.classes # <<>> THEN config.classes ELSE DefaultClasses

\* What repo.count_objects() does for a class: returns 0, returns a positive
\* count, or raises.
ProbeOutcomes == {"zero", "some", "raises"}

count_existing_classes_raise_aborts(config, probe) ==
    IF \E class_name \in Range(classes_to_ingest(config)) : probe[class_name] = "raises"
    THEN <<>>
    ELSE SelectSeq(classes_to_ingest(config), LAMBDA class_name : probe[class_name] = "some")

\* should_run_ingestion's loop over config.classes_to_ingest: a class is
\* appended when its probe returns a positive count, a raising probe is passed.
count_existing_classes(config, probe) ==
    SelectSeq(classes_to_ingest(config), LAMBDA class_name : probe[class_name] = "some")

effective_force_argument_only(force_reingest, config) == force_reingest

\* effective_force = force_reingest or self.config.force_reingest
effective_force(force_reingest, config) == force_reingest \/ config.force_reingest

\* IngestionApplicationService.should_run_ingestion on the status_data the client
\* returned.  The clock is read once for the raw staleness check (utcnow1) and
\* again inside determine_ingestion_state (utcnow2 >= utcnow1).
should_run_ingestion(status_data, force_reingest, config, probe, utcnow1, utcnow2, py) ==
    LET raw_status == get_status(status_data)
        timestamp == status_data.timestamp
        is_stale ==
            /\ raw_status = "in_progress"
            /\ Truthy(timestamp)
            /\ is_timestamp_stale(timestamp, config.staleness_threshold_seconds, utcnow1, py)
        current_state ==
            IF is_stale THEN IN_PROGRESS
            ELSE determine_ingestion_state(status_data, config.staleness_threshold_seconds, utcnow2, py)
        existing_classes == count_existing_classes(config, probe)
    IN  make_ingestion_decision(current_state, existing_classes,
                                effective_force(force_reingest, config),
                                config.is_interactive_mode, timestamp, is_stale)

(***************************************************************************)
(* The status record in the store (WeaviateClient).                        *)
(***************************************************************************)
\* no call made yet (SpecCalls), no call at all (Spec)
NoCall == [op |-> "none"]

NoMetadata == [exists |-> FALSE, status |-> UNKNOWN, timestamp |-> NoTimestamp]

\* WeaviateClient.set_ingestion_metadata: upsert of the singleton object with
\* timestamp utcnow().isoformat() + "Z"; when the store calls raise, the
\* exception is logged and the record is left as it was.
set_ingestion_metadata(m, status, utcnow, store_ok) ==
    IF store_ok
    THEN [exists |-> TRUE, status |-> status, timestamp |-> [form |-> "zulu", t |-> utcnow]]
    ELSE m

\* WeaviateClient.get_ingestion_status: the stored status and timestamp, or
\* the default when the object is absent or the read raises.
get_ingestion_status(m, store_ok) ==
    IF store_ok /\ m.exists
    THEN [status |-> m.status, timestamp |-> m.timestamp]
    ELSE [status |-> "unknown", timestamp |-> NoTimestamp]

(***************************************************************************)
(* The orchestrator's script.                                              *)
(***************************************************************************)
steps_relations_before_collections ==
    << "ensure_schema", "ingest_isco_groups", "ingest_occupations", "ingest_skills",
       "ingest_skill_groups", "create_skill_relations", "ingest_skill_collections",
       "create_hierarchical_relations", "create_isco_group_relations",
       "create_skill_collection_relations", "create_skill_skill_relations",
       "create_broader_skill_relations" >>

\* run_complete_ingestion: steps
steps ==
    << "ensure_schema", "ingest_isco_groups", "ingest_occupations", "ingest_skills",
       "ingest_skill_groups", "ingest_skill_collections", "create_skill_relations",
       "create_hierarchical_relations", "create_isco_group_relations",
       "create_skill_collection_relations", "create_skill_skill_relations",
       "create_broader_skill_relations" >>

\* The class an entity step writes with batch_add_objects ("" for the others).
EntityClassOf(step_name) ==
    CASE step_name = "ingest_isco_groups" -> "ISCOGroup"
      [] step_name = "ingest_occupations" -> "Occupation"
      [] step_name = "ingest_skills" -> "Skill"
      [] step_name = "ingest_skill_groups" -> "SkillGroup"
      [] step_name = "ingest_skill_collections" -> "SkillCollection"
      [] OTHER -> ""

WrittenBy(step_name) ==
    IF EntityClassOf(step_name) = "" THEN {} ELSE {EntityClassOf(step_name)}

(***************************************************************************)
(* Entity objects in the store (EntityIngestor, batch_add_objects).        *)
(***************************************************************************)
MaxRows == 2          \* the rows of one CSV file

\* concept URIs, as their path segments
Uris == {<<"data.europa.eu", "esco", "concept", "a1">>, <<"data.europa.eu", "esco", "concept", "b2">>}

\* uri.split("/")[-1]
last_path_segment(uri) == uri[Len(uri)]

\* the uuid argument left out (None)
NoUuid == ""

\* the identifiers the store's client generates (uuid4) for objects added
\* without one, in the order it hands them out
GeneratedIds == << "uuid4-1", "uuid4-2", "uuid4-3", "uuid4-4", "uuid4-5", "uuid4-6", "uuid4-7", "uuid4-8" >>

\* batch.add_data_object: the object is stored under uid, replacing the object
\* of that class already stored under it, or under a generated identifier
add_data_object(store, class_name, props, uid) ==
    LET id == IF uid = NoUuid THEN GeneratedIds[Cardinality(store) + 1] ELSE uid
    IN  {o \in store : ~(o.class = class_name /\ o.id = id)}
            \cup {[class |-> class_name, id |-> id, uri |-> props.uri]}

\* WeaviateClient.batch_add_objects: uid = uuids[idx] if uuids and idx <
\* len(uuids) else None
RECURSIVE batch_add_objects(_, _, _, _, _)
batch_add_objects(store, class_name, objs, uuids, idx) ==
    IF idx > Len(objs) THEN store
    ELSE LET uid == IF idx <= Len(uuids) THEN uuids[idx] ELSE NoUuid
         IN  batch_add_objects(add_data_object(store, class_name, objs[idx], uid),
                               class_name, objs, uuids, idx + 1)

\* process_batch of each entity step: the uuids it hands to batch_add_objects
\* (ingest_isco_groups alone hands any)
process_batch_uuids(step_name, rows) ==
    IF step_name = "ingest_isco_groups"
    THEN [i \in DOMAIN rows |-> last_path_segment(rows[i])]
    ELSE <<>>

\* an entity step over the rows of its CSV file (one batch)
ingest_entities(store, step_name, rows) ==
    batch_add_objects(store, EntityClassOf(step_name),
                      [i \in DOMAIN rows |-> [uri |-> rows[i]]],
                      process_batch_uuids(step_name, rows), 1)

RECURSIVE ingest_entities_times(_, _, _, _)
ingest_entities_times(store, step_name, rows, runs) ==
    IF runs = 0 THEN store
    ELSE ingest_entities_times(ingest_entities(store, step_name, rows), step_name, rows, runs - 1)

(***************************************************************************)
(* Relations (RelationBuilder, ESCODataReader).                            *)
(***************************************************************************)
RelationMethods ==
    {"create_skill_relations", "create_hierarchical_relations",
     "create_skill_collection_relations", "create_skill_skill_relations",
     "create_broader_skill_relations"}

\* read_csv returned None: the file does not exist
MissingFile == [exists |-> FALSE, columns |-> {}, rows |-> <<>>]

\* a cell that is absent or empty
NoValue == ""

\* the first of alts that is a column of the file, "" when none is
RECURSIVE first_in(_, _)
first_in(alts, columns) ==
    IF alts = <<>> THEN ""
    ELSE IF Head(alts) \in columns THEN Head(alts) ELSE first_in(Tail(alts), columns)

\* the rename_map built for one target column: the pairs {<<alt, target>>}
rename_map_for(target, alts, columns) ==
    IF target \in columns \/ first_in(alts, columns) = "" THEN {}
    ELSE {<<first_in(alts, columns), target>>}

\* df.rename(columns=rename_map) on the URI columns of a file
rename_columns(df, rename_map) ==
    LET renamed == {r[1] : r \in rename_map}
        new_name(c) == IF c \in renamed THEN (CHOOSE r \in rename_map : r[1] = c)[2] ELSE c
        old_name(n) == CHOOSE c \in df.columns : new_name(c) = n
        columns == {new_name(c) : c \in df.columns}
    IN  [exists |-> TRUE, columns |-> columns,
         rows |-> [i \in DOMAIN df.rows |->
                     [uris |-> [n \in columns |-> df.rows[i].uris[old_name(n)]],
                      relationType |-> df.rows[i].relationType]]]

\* ESCODataReader.standardize_hierarchy_columns (files without "Level 0 URI")
standardize_hierarchy_columns(df) ==
    rename_columns(df,
        rename_map_for("broaderUri", <<"broaderConceptUri", "parentUri", "broaderSkillUri">>, df.columns)
        \cup rename_map_for("narrowerUri", <<"narrowerConceptUri", "childUri", "conceptUri", "targetUri", "skillUri">>, df.columns))

\* ESCODataReader.standardize_collection_relation_columns
standardize_collection_relation_columns(df) ==
    rename_columns(df,
        rename_map_for("conceptSchemeUri", <<"collectionUri", "conceptScheme", "schemeUri">>, df.columns)
        \cup rename_map_for("skillUri", <<"conceptUri", "targetUri", "skillID">>, df.columns))

\* the frame a method works on after its standardize call
standardized(method, df) ==
    CASE method \in {"create_hierarchical_relations", "create_broader_skill_relations"} ->
             standardize_hierarchy_columns(df)
      [] method = "create_skill_collection_relations" -> standardize_collection_relation_columns(df)
      [] OTHER -> df

\* the columns a method requires before it goes on ({} where it checks none)
required_columns(method) ==
    CASE method = "create_hierarchical_relations" -> {"broaderUri", "narrowerUri"}
      [] method = "create_broader_skill_relations" -> {"broaderUri", "conceptUri"}
      [] method = "create_skill_collection_relations" -> {"conceptSchemeUri", "skillUri"}
      [] OTHER -> {}

\* the column holding the URI of the reference's source object
from_column(method) ==
    CASE method = "create_skill_relations" -> "occupationUri"
      [] method = "create_hierarchical_relations" -> "narrowerUri"
      [] method = "create_skill_collection_relations" -> "skillUri"
      [] method = "create_skill_skill_relations" -> "skillUri"
      [] method = "create_broader_skill_relations" -> "conceptUri"

\* the column holding the URI of the reference's target object
to_column(method) ==
    CASE method = "create_skill_relations" -> "skillUri"
      [] method = "create_hierarchical_relations" -> "broaderUri"
      [] method = "create_skill_collection_relations" -> "conceptSchemeUri"
      [] method = "create_skill_skill_relations" -> "relatedSkillUri"
      [] method = "create_broader_skill_relations" -> "broaderUri"

from_class(method) ==
    IF method \in {"create_skill_relations", "create_hierarchical_relations"}
    THEN "Occupation" ELSE "Skill"

to_class(method) ==
    CASE method = "create_hierarchical_relations" -> "Occupation"
      [] method = "create_skill_collection_relations" -> "SkillCollection"
      [] OTHER -> "Skill"

ref_property_always_essential(method, relation_type) ==
    CASE method = "create_skill_relations" -> "hasEssentialSkill"
      [] method = "create_hierarchical_relations" -> "broaderOccupation"
      [] method = "create_skill_collection_relations" -> "memberOfSkillCollection"
      [] method = "create_skill_skill_relations" -> "hasRelatedSkill"
      [] method = "create_broader_skill_relations" -> "broaderSkill"

\* ref_property of the reference a row yields; relation_type is
\* record.get("relationType", "related")
ref_property(method, relation_type) ==
    CASE method = "create_skill_relations" ->
             IF relation_type = "essential" THEN "hasEssentialSkill"
             ELSE IF relation_type = "optional" THEN "hasOptionalSkill"
             ELSE "hasEssentialSkill"
      [] method = "create_hierarchical_relations" -> "broaderOccupation"
      [] method = "create_skill_collection_relations" -> "memberOfSkillCollection"
      [] method = "create_skill_skill_relations" -> "hasRelatedSkill"
      [] method = "create_broader_skill_relations" -> "broaderSkill"

endpoints_present_from_only(from_uuid, to_uuid, from_uuids, to_uuids) ==
    from_uuid \in from_uuids

\* the negation of "occ_uuid not in occupation_uuids or skill_uuid not in skill_uuids"
endpoints_present(from_uuid, to_uuid, from_uuids, to_uuids) ==
    from_uuid \in from_uuids /\ to_uuid \in to_uuids

\* what the method has done when it returns: the classes whose identifiers it
\* fetched, the batches it passed to batch_add_references, its skip counter
RelationOutcome(prefetched, batches, skipped) ==
    [prefetched |-> prefetched, batches |-> batches, skipped |-> skipped]

\* the loop over df.to_dict("records"), from row idx on: a row whose columns
\* are missing raises KeyError inside the try and is logged; a row with an
\* absent endpoint is skipped; the others are appended to refs_batch
RECURSIVE relation_rows(_, _, _, _, _, _)
relation_rows(method, df, uuids, idx, refs_batch, skipped) ==
    IF idx > Len(df.rows) THEN [refs_batch |-> refs_batch, skipped |-> skipped]
    ELSE LET record == df.rows[idx]
         IN  IF ~({from_column(method), to_column(method)} \subseteq df.columns)
             THEN relation_rows(method, df, uuids, idx + 1, refs_batch, skipped)
             ELSE LET from_uuid == last_path_segment(record.uris[from_column(method)])
                      to_uuid == last_path_segment(record.uris[to_column(method)])
                      relation_type == IF record.relationType = NoValue THEN "related"
                                       ELSE record.relationType
                  IN  IF ~endpoints_present(from_uuid, to_uuid, uuids[from_class(method)], uuids[to_class(method)])
                      THEN relation_rows(method, df, uuids, idx + 1, refs_batch, skipped + 1)
                      ELSE relation_rows(method, df, uuids, idx + 1,
                               Append(refs_batch,
                                   [from_class |-> from_class(method), from_uuid |-> from_uuid,
                                    ref_property |-> ref_property(method, relation_type),
                                    to_class |-> to_class(method), to_uuid |-> to_uuid]),
                               skipped)

nothing_to_do_columns_only(method, df) ==
    ~(required_columns(method) \subseteq df.columns)

\* the early returns after read_csv: "Required ... columns not found" and
\* "len(df) == 0"
nothing_to_do(method, df) ==
    ~(required_columns(method) \subseteq df.columns) \/ Len(df.rows) = 0

\* a file-based relation method of RelationBuilder; uuids[c] is what
\* get_all_uuids(c) answers
relation_method(method, file, uuids) ==
    IF ~file.exists THEN RelationOutcome({}, <<>>, 0)
    ELSE LET df == standardized(method, file)
         IN  IF nothing_to_do(method, df)
             THEN RelationOutcome({}, <<>>, 0)
             ELSE LET done == relation_rows(method, df, uuids, 1, <<>>, 0)
                  IN  RelationOutcome({from_class(method), to_class(method)},
                          IF done.refs_batch # <<>> THEN <<done.refs_batch>> ELSE <<>>,
                          done.skipped)

\* WeaviateClient.get_all_uuids
get_all_uuids(store, class_name) == {o.id : o \in {x \in store : x.class = class_name}}

(***************************************************************************)
(* The service's read-only reports: get_ingestion_metrics,                 *)
(* verify_completion and validate_prerequisites.  A count probe is         *)
(* repo.count_objects() of one class: it raises, or returns a count.       *)
(***************************************************************************)
MaxCount == 2

CountOutcomes ==
    {[raises |-> TRUE, count |-> 0]} \cup [raises : {FALSE}, count : 0..MaxCount]

metric_increment_with_sentinel(outcome) ==
    IF outcome.raises THEN -1 ELSE outcome.count

\* what one class adds to metrics["total_objects"]
metric_increment(outcome) ==
    IF outcome.raises THEN 0 ELSE outcome.count

\* metrics["class_counts"][class_name]
class_count(outcome) ==
    IF outcome.raises THEN -1 ELSE outcome.count

\* the loop of get_ingestion_metrics over config.classes_to_ingest
RECURSIVE metrics_loop(_, _, _, _)
metrics_loop(classes, probe, idx, metrics) ==
    IF idx > Len(classes) THEN metrics
    ELSE LET class_name == classes[idx]
             counted == [c \in DOMAIN metrics.class_counts \cup {class_name} |->
                            IF c = class_name THEN class_count(probe[class_name])
                            ELSE metrics.class_counts[c]]
         IN  metrics_loop(classes, probe, idx + 1,
                 [class_counts |-> counted,
                  total_objects |-> metrics.total_objects + metric_increment(probe[class_name])])

\* IngestionApplicationService.get_ingestion_metrics
get_ingestion_metrics(config, probe, status_data) ==
    LET metrics == metrics_loop(classes_to_ingest(config), probe, 1,
                                [class_counts |-> <<>>, total_objects |-> 0])
    IN  [class_counts |-> metrics.class_counts, total_objects |-> metrics.total_objects,
         status |-> get_status(status_data), timestamp |-> status_data.timestamp]

\* ValidationResult; calls lists the collaborators the method called
ValidationResult(is_valid, errors, warnings, checks_performed, calls) ==
    [is_valid |-> is_valid, errors |-> errors, warnings |-> warnings,
     checks_performed |-> checks_performed, calls |-> calls]

\* ValidationResult.add_error
add_error(validation, message) ==
    [validation EXCEPT !.is_valid = FALSE, !.errors = Append(@, message)]

\* ValidationResult.add_warning
add_warning(validation, message) ==
    [validation EXCEPT !.warnings = Append(@, message)]

class_finding_empty_is_error(outcome) ==
    IF ~outcome.raises /\ outcome.count > 0 THEN "success" ELSE "error"

\* verify_completion's finding for one class
class_finding(outcome) ==
    IF ~outcome.raises /\ outcome.count > 0 THEN "success" ELSE "warning"

\* the loop of verify_completion over config.classes_to_ingest
RECURSIVE completion_loop(_, _, _, _)
completion_loop(classes, probe, idx, validation) ==
    IF idx > Len(classes) THEN validation
    ELSE LET class_name == classes[idx]
             finding == class_finding(probe[class_name])
             probed == [validation EXCEPT !.calls = Append(@, class_name)]
             message == IF probe[class_name].raises
                        THEN <<class_name, "could not count objects">>
                        ELSE <<class_name, "0 objects">>
         IN  completion_loop(classes, probe, idx + 1,
                 CASE finding = "success" -> probed
                   [] finding = "warning" -> add_warning(probed, message)
                   [] finding = "error" -> add_error(probed, message))

\* IngestionApplicationService.verify_completion; calls lists the classes
\* whose count was probed
verify_completion(status_data, config, probe, utcnow, py) ==
    LET validation == ValidationResult(TRUE, <<>>, <<>>, <<"completion_verification">>, <<>>)
        current_state == determine_ingestion_state(status_data,
                             config.staleness_threshold_seconds, utcnow, py)
    IN  IF current_state # COMPLETED
        THEN add_error(validation, <<"Ingestion state is", current_state, "expected completed">>)
        ELSE completion_loop(classes_to_ingest(config), probe, 1, validation)

ConnectionOutcomes == {"true", "false", "raises"}
SchemaOutcomes == {"returns", "raises"}
ExceptionMessages == {"refused", "timeout"}
ConfigOutcomes == {"valid", "invalid"}
DataOutcomes == {"valid", "missing_files", "invalid"}

\* IngestionDomainService.validate_ingestion_prerequisites
validate_ingestion_prerequisites(config_outcome, data_outcome) ==
    IF config_outcome = "invalid"
    THEN ValidationResult(FALSE, << <<"config">> >>, <<>>, <<"config_validation">>,
                          <<"validate_config">>)
    ELSE IF data_outcome = "invalid"
    THEN ValidationResult(FALSE, << <<"data_files">> >>, <<>>, <<"data_files_validation">>,
                          <<"validate_config", "validate_data_files">>)
    ELSE ValidationResult(TRUE, <<>>,
                          IF data_outcome = "missing_files"
                          THEN << <<"Data file not found">> >> ELSE <<>>,
                          <<"config_validation", "data_files_validation">>,
                          <<"validate_config", "validate_data_files">>)

\* the connectivity check of validate_prerequisites
connectivity_check(is_connected, e) ==
    LET validation == ValidationResult(TRUE, <<>>, <<>>, <<"weaviate_connectivity">>,
                                   <<"is_connected">>)
    IN  CASE is_connected = "true" -> validation
          [] is_connected = "false" -> add_error(validation, <<"Cannot connect to Weaviate">>)
          [] is_connected = "raises" -> add_error(validation, <<"Connection failed:", e>>)

\* the schema check of validate_prerequisites
schema_check(validation, ensure_schema, e) ==
    LET checked == [validation EXCEPT !.checks_performed = Append(@, "schema_validation"),
                                  !.calls = Append(@, "ensure_schema")]
    IN  IF ensure_schema = "raises"
        THEN add_error(checked, <<"Schema setup failed:", e>>)
        ELSE checked

\* the configuration and data-file checks of validate_prerequisites
domain_check(validation, config_outcome, data_outcome) ==
    LET domain_result == validate_ingestion_prerequisites(config_outcome, data_outcome)
    IN  ValidationResult(validation.is_valid /\ domain_result.errors = <<>>,
                         validation.errors \o domain_result.errors,
                         validation.warnings \o domain_result.warnings,
                         validation.checks_performed \o domain_result.checks_performed,
                         validation.calls \o domain_result.calls)

returns_after_error_never(validation) == FALSE

\* "return result" right after add_error in the connectivity and schema checks
returns_after_error(validation) == ~validation.is_valid

\* IngestionApplicationService.validate_prerequisites
validate_prerequisites(is_connected, ensure_schema, e, config_outcome, data_outcome) ==
    LET connected == connectivity_check(is_connected, e)
    IN  IF returns_after_error(connected) THEN connected
        ELSE LET schema == schema_check(connected, ensure_schema, e)
             IN  IF returns_after_error(schema) THEN schema
                 ELSE domain_check(schema, config_outcome, data_outcome)

(***************************************************************************)
(* run_ingestion's choice of engine, the batch reader and the entity       *)
(* steps' process_batch.                                                   *)
(***************************************************************************)
\* run_ingestion, between the in_progress write and the final write: the
\* engines whose entry point is called ("if self.ingestor: ... else: ...");
\* none when there is no ingestor and the orchestrator's import fails
engines_called(has_ingestor, orchestrator_available) ==
    IF has_ingestor THEN <<"run_simple_ingestion">>
    ELSE IF orchestrator_available THEN <<"run_complete_ingestion">>
    ELSE <<>>

\* run_ingestion as one call: the engines called, the statuses written and
\* the success flag of the result
run_ingestion(has_ingestor, orchestrator_available, engine_raises) ==
    LET engines == engines_called(has_ingestor, orchestrator_available)
        failed == engines = <<>> \/ engine_raises
    IN  [engines |-> engines,
         writes |-> <<"in_progress", IF failed THEN "failed" ELSE "completed">>,
         success |-> ~failed]

\* "rows_processed % 1000 == 0"
HeartbeatRows == 1000

end_idx_unclamped(start_idx, batch_size, total_rows) == start_idx + batch_size

\* end_idx = min(start_idx + self.batch_size, total_rows)
end_idx(start_idx, batch_size, total_rows) ==
    IF start_idx + batch_size < total_rows THEN start_idx + batch_size ELSE total_rows

\* range(0, total_rows, self.batch_size), as the sequence of its values
range_starts(total_rows, batch_size) ==
    [k \in 1..((total_rows + batch_size - 1) \div batch_size) |-> (k - 1) * batch_size]

\* df.iloc[start_idx:end_idx] of the k-th iteration, by its bounds
batch_slice(k, total_rows, batch_size) ==
    LET start_idx == range_starts(total_rows, batch_size)[k]
    IN  [start |-> start_idx, end |-> end_idx(start_idx, batch_size, total_rows)]

\* rows_processed after the k-th iteration: the slices are consecutive from
\* row 0, so the sum of their lengths is the end of the k-th
rows_processed_after(k, total_rows, batch_size) ==
    batch_slice(k, total_rows, batch_size).end

\* ESCODataReader.process_csv_in_batches on a file of total_rows rows;
\* process_func raises on its raises_at-th call (never when 0 or beyond the
\* last batch).  calls are the slices process_func was called on, heartbeats
\* the rows_processed values the callback was called with.
process_csv_in_batches(file_exists, total_rows, batch_size, raises_at, has_callback) ==
    IF ~file_exists THEN [calls |-> <<>>, heartbeats |-> <<>>, raised |-> FALSE]
    ELSE LET n == Len(range_starts(total_rows, batch_size))
             raises == raises_at \in 1..n
             called == IF raises THEN raises_at ELSE n
             returned == IF raises THEN raises_at - 1 ELSE n
             processed == [k \in 1..returned |-> rows_processed_after(k, total_rows, batch_size)]
         IN  [calls |-> [k \in 1..called |-> batch_slice(k, total_rows, batch_size)],
              heartbeats |-> SelectSeq(processed,
                                 LAMBDA rows : has_callback /\ rows % HeartbeatRows = 0),
              raised |-> raises]

\* a row whose transformation raises (record["conceptUri"] is a KeyError)
Malformed == <<>>

prepared_until_error(batch) ==
    IF \E i \in DOMAIN batch : batch[i] = Malformed
    THEN SubSeq(batch, 1, (CHOOSE i \in DOMAIN batch :
                              batch[i] = Malformed /\ \A j \in 1..(i - 1) : batch[j] # Malformed) - 1)
    ELSE batch

\* the loop of process_batch: a record is appended unless preparing it raises
prepared(batch) == SelectSeq(batch, LAMBDA record : record # Malformed)

\* process_batch of an entity step on one batch; store_raises says whether
\* batch_add_objects raises.  calls are the batch_add_objects calls made.
process_batch(step_name, batch, store_raises) ==
    LET objs == prepared(batch)
    IN  IF objs = <<>> THEN [calls |-> <<>>, raised |-> FALSE]
        ELSE [calls |-> << [class_name |-> EntityClassOf(step_name),
                            objects |-> [i \in DOMAIN objs |-> [uri |-> objs[i]]],
                            uuids |-> process_batch_uuids(step_name, objs)] >>,
              raised |-> store_raises]

(***************************************************************************)
(* The RelationBuilder's identifier cache over one orchestrator run, and   *)
(* what should_run_ingestion leaves behind.                                *)
(***************************************************************************)
\* the classes a file-based method pre-fetches, in the order of its calls
prefetch_classes(method) ==
    CASE method = "create_skill_relations" -> <<"Occupation", "Skill">>
      [] method = "create_hierarchical_relations" -> <<"Occupation">>
      [] method = "create_skill_collection_relations" -> <<"SkillCollection", "Skill">>
      [] method = "create_skill_skill_relations" -> <<"Skill">>
      [] method = "create_broader_skill_relations" -> <<"Skill">>

\* RelationBuilder(client, data_reader): self._uuid_cache = {}; fetches logs
\* the get_all_uuids calls as <<class_name, index of the step making it>>
NewRelationBuilder == [cache |-> {}, fetches |-> <<>>]

prefetch_uuids_uncached(builder, class_name, step_idx) ==
    [cache |-> builder.cache \cup {class_name},
     fetches |-> Append(builder.fetches, <<class_name, step_idx>>)]

\* RelationBuilder._prefetch_uuids
prefetch_uuids(builder, class_name, step_idx) ==
    IF class_name \in builder.cache THEN builder
    ELSE [cache |-> builder.cache \cup {class_name},
          fetches |-> Append(builder.fetches, <<class_name, step_idx>>)]

\* the _prefetch_uuids calls of one method that reaches them
RECURSIVE prefetch_all(_, _, _, _)
prefetch_all(builder, classes, i, step_idx) ==
    IF i > Len(classes) THEN builder
    ELSE prefetch_all(prefetch_uuids(builder, classes[i], step_idx), classes, i + 1, step_idx)

\* the loop of run_complete_ingestion over steps, every step returning;
\* has_rows[method] says whether the method's file has the rows and columns
\* that take it past its early returns
RECURSIVE run_relation_steps(_, _, _)
run_relation_steps(builder, has_rows, idx) ==
    IF idx > Len(steps) THEN builder
    ELSE LET step_name == steps[idx]
         IN  run_relation_steps(
                 IF step_name \in RelationMethods /\ has_rows[step_name]
                 THEN prefetch_all(builder, prefetch_classes(step_name), 1, idx)
                 ELSE builder,
                 has_rows, idx + 1)

\* the get_all_uuids calls of consecutive runs of run_complete_ingestion,
\* each run building its RelationBuilder
RECURSIVE fetches_of_runs(_, _)
fetches_of_runs(has_rows, runs) ==
    IF runs = 0 THEN <<>>
    ELSE Append(fetches_of_runs(has_rows, runs - 1),
                run_relation_steps(NewRelationBuilder, has_rows, 1).fetches)

finally_restore_on_return_only(config, original_force, did_raise) ==
    IF did_raise THEN config ELSE [config EXCEPT !.force_reingest = original_force]

\* "finally: self.config.force_reingest = original_force"
finally_restore(config, original_force, did_raise) ==
    [config EXCEPT !.force_reingest = original_force]

\* what should_run_ingestion leaves behind: the config after the call, the
\* writes it sent to the store (its store calls are get_ingestion_status and
\* count_objects) and whether make_ingestion_decision raised through it
should_run_ingestion_effects(config, force_reingest, decision_raises) ==
    LET original_force == config.force_reingest
        temporary == [config EXCEPT !.force_reingest = effective_force(force_reingest, config)]
    IN  [config |-> finally_restore(temporary, original_force, decision_raises),
         store_writes |-> <<>>,
         raised |-> decision_raises]

(***************************************************************************)
(* Spec: competing invocations.  Each process calls should_run_ingestion   *)
(* without force and calls run_ingestion only when told to; a process may  *)
(* be terminated at any point of its pipeline, and may be started again.   *)
(***************************************************************************)
Procs == {"p1", "p2"}

\* The configuration of the invocations: no force, the longest threshold,
\* two configured classes.
RunConfig(is_interactive) ==
    [force_reingest |-> FALSE, is_interactive_mode |-> is_interactive,
     staleness_threshold_seconds |-> MaxThreshold, classes |-> SubSeq(DefaultClasses, 1, 2)]

NoInvocation == [status |-> KeyAbsent, at |-> 0, is_interactive |-> FALSE]
NoDecision == IngestionDecision(FALSE, <<>>, UNKNOWN, FALSE, <<>>, NoTimestamp, FALSE)

InPipeline == {"heartbeat", "step", "raising", "complete", "fail", "legacy"}

\* whether a call to the store answers (TRUE) or raises (FALSE)
StoreOutcomes == IF store_faults THEN BOOLEAN ELSE {TRUE}

\* run_ingestion: total_steps
total_steps == 12

\* the arguments of a set_ingestion_metadata call: status, details.step and
\* details.error ("" where the details do not carry the key)
StatusWrite(status, step, error) == [status |-> status, step |-> step, error |-> error]
NoWrite == StatusWrite("", "", "")

heartbeat_details_without_step(step_name) == StatusWrite("in_progress", "", "")

\* _update_heartbeat: status="in_progress", details={"step": step_name, ...}
heartbeat_details(step_name) == StatusWrite("in_progress", step_name, "")

NoResult == [kind |-> "none"]

\* the IngestionResult entity, with the fields run_ingestion sets
IngestionResult(success, steps_completed, total, errors, final_state, last_completed_step) ==
    [kind |-> "IngestionResult", success |-> success, steps_completed |-> steps_completed,
     total_steps |-> total, errors |-> errors, final_state |-> final_state,
     last_completed_step |-> last_completed_step]

success_result_without_steps ==
    IngestionResult(TRUE, 0, total_steps, <<>>, COMPLETED, "create_broader_skill_relations")

\* run_ingestion's return after the completed write
success_result ==
    IngestionResult(TRUE, total_steps, total_steps, <<>>, COMPLETED, "create_broader_skill_relations")

failure_result_without_error(e) ==
    IngestionResult(FALSE, 0, total_steps, <<>>, FAILED, "")

\* run_ingestion's return from its except clause: errors=[str(e)]
failure_result(e) ==
    IngestionResult(FALSE, 0, total_steps, <<e>>, FAILED, "")

\* init_ingestion's return code
ExitCode(code) == [kind |-> "exit", code |-> code]

loop_continuation_without_raise(idx, outcome) ==
    IF idx = Len(steps) THEN "complete" ELSE "heartbeat"

\* run_complete_ingestion's loop after step idx: the next step's heartbeat, the
\* return of the results, or the re-raised exception
loop_continuation(idx, outcome) ==
    IF outcome = "failed" THEN "fail"
    ELSE IF idx = Len(steps) THEN "complete" ELSE "heartbeat"

\* What a step function does with an exception raised by a store call it
\* makes: TRUE when it catches and logs it, FALSE when it lets it propagate.
\* ensure_schema catches the failure of create_class but not of schema.get;
\* create_isco_group_relations catches everything; the others catch nothing
\* raised by the store.
CatchOutcomes(step_name) ==
    CASE step_name = "ensure_schema" -> BOOLEAN
      [] step_name = "create_isco_group_relations" -> {TRUE}
      [] OTHER -> {FALSE}

InitRun ==
    /\ now = 0
    /\ meta = NoMetadata
    /\ objects = {}
    /\ pc = [p \in Procs |-> "idle"]
    /\ local = [p \in Procs |-> NoInvocation]
    /\ decision = [p \in Procs |-> NoDecision]
    /\ invoked = [p \in Procs |-> <<>>]
    /\ results = [p \in Procs |-> <<>>]
    /\ entry = [p \in Procs |-> ""]
    /\ raised = [p \in Procs |-> ""]
    /\ issued = [p \in Procs |-> NoWrite]
    /\ result = [p \in Procs |-> NoResult]

Init ==
    /\ args = NoCall
    /\ ret = NoCall
    /\ store_faults \in BOOLEAN
    /\ InitRun

InitStoreUp ==
    /\ args = NoCall
    /\ ret = NoCall
    /\ store_faults = FALSE
    /\ InitRun

\* time passes
Tick ==
    /\ now < MaxTime
    /\ now' = now + 1
    /\ UNCHANGED <<callVars, store_faults, meta, objects, pc, local, decision, invoked, results, svcVars>>

\* what count_objects() answers for the configured classes: the store's counts
\* while the store answers, an exception for each class while it does not
ProbeOf(classes, store_ok) ==
    [c \in Range(classes) |->
        IF ~store_ok THEN "raises" ELSE IF c \in objects THEN "some" ELSE "zero"]

\* should_run_ingestion(force_reingest=False)
ShouldRunIngestion(p) ==
    /\ pc[p] = "idle"
    /\ \E store_ok \in StoreOutcomes, is_interactive \in BOOLEAN, py \in PythonVersions :
        LET config == RunConfig(is_interactive)
            status_data == get_ingestion_status(meta, store_ok)
            probe == ProbeOf(classes_to_ingest(config), store_ok)
        IN  /\ decision' = [decision EXCEPT ![p] =
                   should_run_ingestion(status_data, FALSE, config, probe, now, now, py)]
            /\ local' = [local EXCEPT ![p] =
                   [status |-> status_data.status, at |-> now,
                    is_interactive |-> is_interactive]]
    /\ pc' = [pc EXCEPT ![p] = "decided"]
    /\ UNCHANGED <<callVars, store_faults, now, meta, objects, invoked, results, svcVars>>

\* the caller does not run when the decision says so
Decline(p) ==
    /\ pc[p] = "decided" /\ ~decision[p].should_run
    /\ pc' = [pc EXCEPT ![p] = "done"]
    /\ local' = [local EXCEPT ![p] = NoInvocation]
    /\ decision' = [decision EXCEPT ![p] = NoDecision]
    /\ UNCHANGED <<callVars, store_faults, now, meta, objects, invoked, results, svcVars>>

\* run_ingestion up to the orchestrator's loop: mark the record in_progress;
\* an exception of that write is logged and the pipeline starts all the same
RunIngestion(p) ==
    /\ pc[p] = "decided" /\ decision[p].should_run
    /\ \E store_ok \in StoreOutcomes :
        meta' = set_ingestion_metadata(meta, "in_progress", now, store_ok)
    /\ issued' = [issued EXCEPT ![p] = StatusWrite("in_progress", "", "")]
    /\ entry' = [entry EXCEPT ![p] = "run_ingestion"]
    /\ pc' = [pc EXCEPT ![p] = "heartbeat"]
    /\ local' = [local EXCEPT ![p] = NoInvocation]
    /\ decision' = [decision EXCEPT ![p] = NoDecision]
    /\ UNCHANGED <<callVars, store_faults, now, objects, invoked, results, raised, result>>

\* the loop's head: _update_heartbeat(step_name), then step_func is called
UpdateHeartbeat(p) ==
    /\ pc[p] = "heartbeat"
    /\ \E store_ok \in StoreOutcomes :
        meta' = set_ingestion_metadata(meta, "in_progress", now, store_ok)
    /\ issued' = [issued EXCEPT ![p] = heartbeat_details(steps[Len(invoked[p]) + 1])]
    /\ invoked' = [invoked EXCEPT ![p] = Append(@, steps[Len(@) + 1])]
    /\ pc' = [pc EXCEPT ![p] = "step"]
    /\ UNCHANGED <<callVars, store_faults, now, objects, local, decision, results, entry, raised, result>>

\* an entity step's heartbeat callback, every 1000 rows
ReaderHeartbeat(p) ==
    /\ pc[p] = "step"
    /\ EntityClassOf(invoked[p][Len(invoked[p])]) # ""
    /\ \E store_ok \in StoreOutcomes :
        meta' = set_ingestion_metadata(meta, "in_progress", now, store_ok)
    /\ issued' = [issued EXCEPT ![p] = heartbeat_details(invoked[p][Len(invoked[p])])]
    /\ UNCHANGED <<callVars, store_faults, now, objects, pc, local, decision, invoked, results, entry, raised, result>>

\* step_func() returns: results[step_name] = "completed"
StepReturns(p) ==
    /\ pc[p] = "step"
    /\ LET step_name == invoked[p][Len(invoked[p])]
       IN  /\ objects' = objects \cup WrittenBy(step_name)
           /\ results' = [results EXCEPT ![p] = Append(@, <<step_name, "completed">>)]
    /\ pc' = [pc EXCEPT ![p] = loop_continuation(Len(invoked[p]), "completed")]
    /\ UNCHANGED <<callVars, store_faults, now, meta, local, decision, invoked, svcVars>>

\* a call made by the step function (a store call, the read of its CSV file)
\* raises, before or after some of the step's batches were written; the
\* exception is named after the step
StepCallRaises(p) ==
    /\ pc[p] = "step"
    /\ LET step_name == invoked[p][Len(invoked[p])]
       IN  /\ \E written \in {{}, WrittenBy(step_name)} : objects' = objects \cup written
           /\ raised' = [raised EXCEPT ![p] = step_name]
    /\ pc' = [pc EXCEPT ![p] = "raising"]
    /\ UNCHANGED <<callVars, store_faults, now, meta, local, decision, invoked, results, entry, issued, result>>

\* the step function lets the exception out: results[step_name] =
\* "failed: ...", and the loop re-raises it
StepRaises(p) ==
    /\ pc[p] = "raising"
    /\ LET step_name == invoked[p][Len(invoked[p])]
       IN  /\ FALSE \in CatchOutcomes(step_name)
           /\ results' = [results EXCEPT ![p] = Append(@, <<step_name, "failed">>)]
    /\ pc' = [pc EXCEPT ![p] = loop_continuation(Len(invoked[p]), "failed")]
    /\ UNCHANGED <<callVars, store_faults, now, meta, objects, local, decision, invoked, svcVars>>

\* the step function catches the exception, logs it and returns:
\* results[step_name] = "completed"
StepCatches(p) ==
    /\ pc[p] = "raising"
    /\ LET step_name == invoked[p][Len(invoked[p])]
       IN  /\ TRUE \in CatchOutcomes(step_name)
           /\ results' = [results EXCEPT ![p] = Append(@, <<step_name, "completed">>)]
    /\ raised' = [raised EXCEPT ![p] = ""]
    /\ pc' = [pc EXCEPT ![p] = loop_continuation(Len(invoked[p]), "completed")]
    /\ UNCHANGED <<callVars, store_faults, now, meta, objects, local, decision, invoked, entry, issued, result>>

\* run_ingestion after the orchestrator returned: the completed write returns
\* (stored, or lost inside the client) and the success result is built
MarkCompleted(p) ==
    /\ pc[p] = "complete" /\ entry[p] = "run_ingestion"
    /\ \E store_ok \in StoreOutcomes :
        meta' = set_ingestion_metadata(meta, "completed", now, store_ok)
    /\ issued' = [issued EXCEPT ![p] = StatusWrite("completed", "", "")]
    /\ result' = [result EXCEPT ![p] = success_result]
    /\ pc' = [pc EXCEPT ![p] = "done"]
    /\ invoked' = [invoked EXCEPT ![p] = <<>>]
    /\ results' = [results EXCEPT ![p] = <<>>]
    /\ entry' = [entry EXCEPT ![p] = ""]
    /\ UNCHANGED <<callVars, store_faults, now, objects, local, decision, raised>>

\* the completed write raises out of the client: the call stands inside the
\* try block, so the except clause of run_ingestion takes over
MarkCompletedRaises(p) ==
    /\ pc[p] = "complete" /\ entry[p] = "run_ingestion"
    /\ store_faults
    /\ issued' = [issued EXCEPT ![p] = StatusWrite("completed", "", "")]
    /\ raised' = [raised EXCEPT ![p] = "set_ingestion_metadata"]
    /\ pc' = [pc EXCEPT ![p] = "fail"]
    /\ UNCHANGED <<callVars, store_faults, now, meta, objects, local, decision, invoked, results, entry, result>>

\* run_ingestion's except clause: the failed write (its own exception is
\* passed over) and the failure result
MarkFailed(p) ==
    /\ pc[p] = "fail" /\ entry[p] = "run_ingestion"
    /\ \E store_ok \in StoreOutcomes :
        meta' = set_ingestion_metadata(meta, "failed", now, store_ok)
    /\ issued' = [issued EXCEPT ![p] = StatusWrite("failed", "", raised[p])]
    /\ result' = [result EXCEPT ![p] = failure_result(raised[p])]
    /\ raised' = [raised EXCEPT ![p] = ""]
    /\ pc' = [pc EXCEPT ![p] = "done"]
    /\ invoked' = [invoked EXCEPT ![p] = <<>>]
    /\ results' = [results EXCEPT ![p] = <<>>]
    /\ entry' = [entry EXCEPT ![p] = ""]
    /\ UNCHANGED <<callVars, store_faults, now, objects, local, decision>>

\* the process is terminated mid-pipeline; what it held in memory is gone
Terminate(p) ==
    /\ pc[p] \in InPipeline
    /\ pc' = [pc EXCEPT ![p] = "crashed"]
    /\ invoked' = [invoked EXCEPT ![p] = <<>>]
    /\ results' = [results EXCEPT ![p] = <<>>]
    /\ entry' = [entry EXCEPT ![p] = ""]
    /\ raised' = [raised EXCEPT ![p] = ""]
    /\ issued' = [issued EXCEPT ![p] = NoWrite]
    /\ UNCHANGED <<callVars, store_faults, now, meta, objects, local, decision, result>>

\* a new invocation (container restart, next scheduled run)
Restart(p) ==
    /\ pc[p] \in {"done", "crashed"}
    /\ pc' = [pc EXCEPT ![p] = "idle"]
    /\ issued' = [issued EXCEPT ![p] = NoWrite]
    /\ result' = [result EXCEPT ![p] = NoResult]
    /\ UNCHANGED <<callVars, store_faults, now, meta, objects, local, decision, invoked, results, entry, raised>>

\* the steps of an invocation while every status-record call returns
NextStoreUp ==
    \/ Tick
    \/ \E p \in Procs :
        \/ ShouldRunIngestion(p)
        \/ Decline(p)
        \/ RunIngestion(p)
        \/ UpdateHeartbeat(p)
        \/ ReaderHeartbeat(p)
        \/ StepReturns(p)
        \/ StepCallRaises(p)
        \/ StepRaises(p)
        \/ StepCatches(p)
        \/ MarkCompleted(p)
        \/ MarkFailed(p)
        \/ Terminate(p)
        \/ Restart(p)

Next ==
    \/ NextStoreUp
    \/ \E p \in Procs : MarkCompletedRaises(p)

Spec == Init /\ [][Next]_vars

\* the same while the store answers every call
SpecStoreUp == InitStoreUp /\ [][NextStoreUp]_vars

(***************************************************************************)
(* SpecEntry: one invocation at a time through either entry point, the     *)
(* application service (should_run_ingestion, run_ingestion) or the        *)
(* container's init_ingestion, which runs the orchestrator directly and    *)
(* falls back to the legacy ingestor when the orchestrator fails.          *)
(***************************************************************************)
Solo == {"p1"}

\* WeaviateIngestor.run_simple_ingestion: the calls it makes, in order
legacy_steps ==
    << "initialize_schema", "ingest_isco_groups", "ingest_occupations", "ingest_skills",
       "ingest_skill_groups", "ingest_skill_collections", "create_skill_relations",
       "create_hierarchical_relations", "create_isco_group_relations",
       "create_skill_collection_relations", "create_skill_skill_relations",
       "create_broader_skill_relations" >>

\* init_ingestion: wait_for_weaviate fails after its retries, return 3
InitUnavailable(p) ==
    /\ pc[p] = "idle"
    /\ store_faults
    /\ result' = [result EXCEPT ![p] = ExitCode(3)]
    /\ pc' = [pc EXCEPT ![p] = "done"]
    /\ UNCHANGED <<callVars, store_faults, now, meta, objects, local, decision, invoked, results, entry, raised, issued>>

\* init_ingestion: the store answers, client.ensure_schema() returns and the
\* orchestrator's run_complete_ingestion is entered
InitIngestion(p) ==
    /\ pc[p] = "idle"
    /\ entry' = [entry EXCEPT ![p] = "init_ingestion"]
    /\ pc' = [pc EXCEPT ![p] = "heartbeat"]
    /\ UNCHANGED <<callVars, store_faults, now, meta, objects, local, decision, invoked, results, raised, issued, result>>

\* init_ingestion: run_complete_ingestion returned, return 0
InitReturns(p) ==
    /\ pc[p] = "complete" /\ entry[p] = "init_ingestion"
    /\ result' = [result EXCEPT ![p] = ExitCode(0)]
    /\ pc' = [pc EXCEPT ![p] = "done"]
    /\ invoked' = [invoked EXCEPT ![p] = <<>>]
    /\ results' = [results EXCEPT ![p] = <<>>]
    /\ entry' = [entry EXCEPT ![p] = ""]
    /\ UNCHANGED <<callVars, store_faults, now, meta, objects, local, decision, raised, issued>>

\* init_ingestion: "except Exception" around the orchestrator logs the error
\* and goes on to the legacy WeaviateIngestor
InitFallback(p) ==
    /\ pc[p] = "fail" /\ entry[p] = "init_ingestion"
    /\ raised' = [raised EXCEPT ![p] = ""]
    /\ invoked' = [invoked EXCEPT ![p] = <<>>]
    /\ results' = [results EXCEPT ![p] = <<>>]
    /\ pc' = [pc EXCEPT ![p] = "legacy"]
    /\ UNCHANGED <<callVars, store_faults, now, meta, objects, local, decision, entry, issued, result>>

\* run_simple_ingestion: the next call of the legacy ingestor runs and returns
LegacyStep(p) ==
    /\ pc[p] = "legacy"
    /\ Len(invoked[p]) < Len(legacy_steps)
    /\ LET step_name == legacy_steps[Len(invoked[p]) + 1]
       IN  /\ invoked' = [invoked EXCEPT ![p] = Append(@, step_name)]
           /\ objects' = objects \cup WrittenBy(step_name)
    /\ UNCHANGED <<callVars, store_faults, now, meta, pc, local, decision, results, svcVars>>

\* run_simple_ingestion raises: init_ingestion's outer except, return 3
LegacyRaises(p) ==
    /\ pc[p] = "legacy"
    /\ Len(invoked[p]) < Len(legacy_steps)
    /\ result' = [result EXCEPT ![p] = ExitCode(3)]
    /\ pc' = [pc EXCEPT ![p] = "done"]
    /\ invoked' = [invoked EXCEPT ![p] = <<>>]
    /\ entry' = [entry EXCEPT ![p] = ""]
    /\ UNCHANGED <<callVars, store_faults, now, meta, objects, local, decision, results, raised, issued>>

\* run_simple_ingestion returned: init_ingestion returns 0
LegacyReturns(p) ==
    /\ pc[p] = "legacy"
    /\ Len(invoked[p]) = Len(legacy_steps)
    /\ result' = [result EXCEPT ![p] = ExitCode(0)]
    /\ pc' = [pc EXCEPT ![p] = "done"]
    /\ invoked' = [invoked EXCEPT ![p] = <<>>]
    /\ entry' = [entry EXCEPT ![p] = ""]
    /\ UNCHANGED <<callVars, store_faults, now, meta, objects, local, decision, results, raised, issued>>

NextEntry ==
    \/ Tick
    \/ \E p \in Solo :
        \/ ShouldRunIngestion(p)
        \/ Decline(p)
        \/ RunIngestion(p)
        \/ InitUnavailable(p)
        \/ InitIngestion(p)
        \/ UpdateHeartbeat(p)
        \/ ReaderHeartbeat(p)
        \/ StepReturns(p)
        \/ StepCallRaises(p)
        \/ StepRaises(p)
        \/ StepCatches(p)
        \/ MarkCompleted(p)
        \/ MarkCompletedRaises(p)
        \/ MarkFailed(p)
        \/ InitReturns(p)
        \/ InitFallback(p)
        \/ LegacyStep(p)
        \/ LegacyRaises(p)
        \/ LegacyReturns(p)
        \/ Terminate(p)
        \/ Restart(p)

SpecEntry == Init /\ [][NextEntry]_vars


(***************************************************************************)
(* SpecCalls: one call of one function.  Init draws the function and its   *)
(* inputs; the action of that function applies it.                         *)
(***************************************************************************)
StatusData == [status : StatusStrings, timestamp : TimestampValues]

ElapsedValues == {0, 1}

Configs(classes) ==
    [force_reingest : BOOLEAN, is_interactive_mode : BOOLEAN,
     staleness_threshold_seconds : Thresholds, classes : {classes}]

\* the lists of classes a decision can be handed: the sub-lists of a ClassList
ExistingLists ==
    {<<>>, <<"Occupation">>, <<"Skill">>, <<"Occupation", "Skill">>}

StaleInputs ==
    [op : {"is_timestamp_stale"}, timestamp : TimestampValues \ {NoTimestamp},
     threshold : Thresholds, utcnow : Times, py : PythonVersions]

DetermineInputs ==
    [op : {"determine_ingestion_state"}, status_data : StatusData,
     threshold : Thresholds, utcnow : Times, py : PythonVersions]

DecisionInputs ==
    [op : {"make_ingestion_decision"}, current_state : IngestionState,
     existing_classes : ExistingLists, force_reingest : BOOLEAN,
     is_interactive : BOOLEAN, timestamp : TimestampValues, is_stale : BOOLEAN]

ShouldRunInputs ==
    UNION {[op : {"should_run_ingestion"}, status_data : StatusData,
            force_reingest : BOOLEAN, config : Configs(classes),
            probe : [Range(classes) -> ProbeOutcomes],
            utcnow : Times, elapsed : ElapsedValues, py : PythonVersions]
           : classes \in ClassLists}

\* the rows of a CSV file: up to MaxRows rows, a URI possibly on two rows
RowLists == UNION {[1..n -> Uris] : n \in 1..MaxRows}

EntityStepNames ==
    {"ingest_isco_groups", "ingest_occupations", "ingest_skills",
     "ingest_skill_groups", "ingest_skill_collections"}

IngestInputs ==
    [op : {"ingest_entities"}, step_name : EntityStepNames, rows : RowLists, runs : {1, 2}]

RelationTypes == {"essential", "optional", "x", NoValue}

\* the URI columns of the files a method is handed
ColumnSets(method) ==
    CASE method = "create_skill_relations" -> {{"occupationUri", "skillUri"}, {"skillUri"}}
      [] method = "create_hierarchical_relations" ->
             {{"conceptUri", "broaderUri"}, {"parentUri", "childUri"}, {"conceptUri"}}
      [] method = "create_skill_collection_relations" ->
             {{"conceptSchemeUri", "skillUri"}, {"collectionUri", "conceptUri"}, {"skillUri"}}
      [] method = "create_skill_skill_relations" -> {{"skillUri", "relatedSkillUri"}}
      [] method = "create_broader_skill_relations" ->
             {{"conceptUri", "broaderUri"}, {"conceptUri", "broaderUri", "narrowerUri"}}

RelationRows(method, columns, relation_types) ==
    [uris : [columns -> Uris],
     relationType : IF method = "create_skill_relations" THEN relation_types ELSE {NoValue}]

\* a relation file: missing, or a header and up to MaxRows rows
RelationFiles(method, column_sets, relation_types) ==
    {MissingFile} \cup
    UNION {[exists : {TRUE}, columns : {columns},
            rows : UNION {[1..n -> RelationRows(method, columns, relation_types)] : n \in 0..MaxRows}]
           : columns \in column_sets}

\* the classes whose identifiers a method pre-fetches
RelationClasses(method) == {from_class(method), to_class(method)}

\* what get_all_uuids may answer for a class
UuidSets == SUBSET {last_path_segment(uri) : uri \in Uris}

RelationInputs ==
    UNION {[op : {"relation_method"}, method : {method},
            file : RelationFiles(method, ColumnSets(method), RelationTypes),
            uuids : [RelationClasses(method) -> UuidSets]]
           : method \in RelationMethods}

\* the columns of the ESCO files as the methods name them
EscoColumns(method) == {from_column(method), to_column(method)}

\* the entity files of one run and one relation file
RunInputs ==
    UNION {[op : {"ingest_and_relate"}, method : {method},
            entity_rows : [RelationClasses(method) -> RowLists],
            file : RelationFiles(method, {EscoColumns(method)}, {"essential"})]
           : method \in RelationMethods}

\* the configurations the reports are run under
ReportConfigs(classes) ==
    [force_reingest : {FALSE}, is_interactive_mode : {FALSE},
     staleness_threshold_seconds : Thresholds, classes : {classes}]

MetricsInputs ==
    UNION {[op : {"get_ingestion_metrics"}, status_data : StatusData,
            config : ReportConfigs(classes), probe : [Range(classes) -> CountOutcomes]]
           : classes \in ClassLists}

VerifyInputs ==
    UNION {[op : {"verify_completion"}, status_data : StatusData,
            config : ReportConfigs(classes), probe : [Range(classes) -> CountOutcomes],
            utcnow : Times, py : PythonVersions]
           : classes \in ClassLists}

PrerequisiteInputs ==
    [op : {"validate_prerequisites"}, is_connected : ConnectionOutcomes,
     ensure_schema : SchemaOutcomes, e : ExceptionMessages,
     config_outcome : ConfigOutcomes, data_outcome : DataOutcomes]

EngineInputs ==
    [op : {"run_ingestion"}, has_ingestor : BOOLEAN, orchestrator_available : BOOLEAN,
     engine_raises : BOOLEAN]

\* file sizes around the heartbeat interval, and small ones
MaxSmallRows == 4
RowCounts == 0..MaxSmallRows \cup {HeartbeatRows - 1, HeartbeatRows, HeartbeatRows + 1,
                                   HeartbeatRows + 100, 2 * HeartbeatRows}

\* self.batch_size: the default 100 and others
BatchSizes == {1, 2, 3, 100, 300, 1000}

MaxRaiseAt == 3

BatchInputs ==
    [op : {"process_csv_in_batches"}, file_exists : BOOLEAN, total_rows : RowCounts,
     batch_size : BatchSizes, raises_at : 0..MaxRaiseAt, has_callback : BOOLEAN]

\* a batch of up to MaxRows records, some of them malformed
RecordLists == UNION {[1..n -> Uris \cup {Malformed}] : n \in 1..MaxRows}

ProcessBatchInputs ==
    [op : {"process_batch"}, step_name : EntityStepNames, batch : RecordLists,
     store_raises : BOOLEAN]

MaxRuns == 2

FetchInputs ==
    [op : {"run_complete_ingestion"}, has_rows : [RelationMethods -> BOOLEAN],
     runs : 1..MaxRuns]

EffectsInputs ==
    UNION {[op : {"should_run_ingestion_effects"}, config : Configs(classes),
            force_reingest : BOOLEAN, decision_raises : BOOLEAN]
           : classes \in ClassLists}

InitCalls ==
    /\ args \in StaleInputs \cup DetermineInputs \cup DecisionInputs \cup ShouldRunInputs \cup IngestInputs
                 \cup RelationInputs \cup RunInputs
                 \cup MetricsInputs \cup VerifyInputs \cup PrerequisiteInputs
                 \cup EngineInputs \cup BatchInputs \cup ProcessBatchInputs
                 \cup FetchInputs \cup EffectsInputs
    /\ ret = NoCall
    /\ store_faults = FALSE
    /\ InitRun

CallIsTimestampStale ==
    /\ args.op = "is_timestamp_stale" /\ ret = NoCall
    /\ ret' = [op |-> args.op,
               value |-> is_timestamp_stale(args.timestamp, args.threshold, args.utcnow, args.py)]
    /\ UNCHANGED <<args, runVars>>

CallDetermineIngestionState ==
    /\ args.op = "determine_ingestion_state" /\ ret = NoCall
    /\ ret' = [op |-> args.op,
               value |-> determine_ingestion_state(args.status_data, args.threshold,
                                                   args.utcnow, args.py)]
    /\ UNCHANGED <<args, runVars>>

CallMakeIngestionDecision ==
    /\ args.op = "make_ingestion_decision" /\ ret = NoCall
    /\ ret' = [op |-> args.op,
               value |-> make_ingestion_decision(args.current_state, args.existing_classes,
                             args.force_reingest, args.is_interactive,
                             args.timestamp, args.is_stale)]
    /\ UNCHANGED <<args, runVars>>

CallShouldRunIngestion ==
    /\ args.op = "should_run_ingestion" /\ ret = NoCall
    /\ ret' = [op |-> args.op,
               value |-> should_run_ingestion(args.status_data, args.force_reingest,
                             args.config, args.probe, args.utcnow,
                             args.utcnow + args.elapsed, args.py)]
    /\ UNCHANGED <<args, runVars>>

\* an entity step run once or twice over the same file, on an empty store
CallIngestEntities ==
    /\ args.op = "ingest_entities" /\ ret = NoCall
    /\ ret' = [op |-> args.op,
               value |-> ingest_entities_times({}, args.step_name, args.rows, args.runs)]
    /\ UNCHANGED <<args, runVars>>

\* one file-based relation method on one file
CallRelationMethod ==
    /\ args.op = "relation_method" /\ ret = NoCall
    /\ ret' = [op |-> args.op, value |-> relation_method(args.method, args.file, args.uuids)]
    /\ UNCHANGED <<args, runVars>>

\* the entity steps of the classes that relation methods link, in script order
EntityStepOrder == <<"ingest_occupations", "ingest_skills", "ingest_skill_collections">>

\* the store after the entity steps of one orchestrator run on an empty store;
\* entity_rows[c] are the rows of the file of class c
RECURSIVE store_after_entity_steps(_, _, _)
store_after_entity_steps(store, entity_rows, idx) ==
    IF idx > Len(EntityStepOrder) THEN store
    ELSE LET step_name == EntityStepOrder[idx]
             class_name == EntityClassOf(step_name)
             rows == IF class_name \in DOMAIN entity_rows THEN entity_rows[class_name] ELSE <<>>
         IN  store_after_entity_steps(ingest_entities(store, step_name, rows), entity_rows, idx + 1)

\* the entity steps of one run, then one relation method of the same run
CallIngestAndRelate ==
    /\ args.op = "ingest_and_relate" /\ ret = NoCall
    /\ LET store == store_after_entity_steps({}, args.entity_rows, 1)
           uuids == [c \in RelationClasses(args.method) |-> get_all_uuids(store, c)]
       IN  ret' = [op |-> args.op, value |-> relation_method(args.method, args.file, uuids)]
    /\ UNCHANGED <<args, runVars>>

CallGetIngestionMetrics ==
    /\ args.op = "get_ingestion_metrics" /\ ret = NoCall
    /\ ret' = [op |-> args.op,
               value |-> get_ingestion_metrics(args.config, args.probe, args.status_data)]
    /\ UNCHANGED <<args, runVars>>

CallVerifyCompletion ==
    /\ args.op = "verify_completion" /\ ret = NoCall
    /\ ret' = [op |-> args.op,
               value |-> verify_completion(args.status_data, args.config, args.probe,
                                           args.utcnow, args.py)]
    /\ UNCHANGED <<args, runVars>>

CallValidatePrerequisites ==
    /\ args.op = "validate_prerequisites" /\ ret = NoCall
    /\ ret' = [op |-> args.op,
               value |-> validate_prerequisites(args.is_connected, args.ensure_schema, args.e,
                                                args.config_outcome, args.data_outcome)]
    /\ UNCHANGED <<args, runVars>>

CallRunIngestion ==
    /\ args.op = "run_ingestion" /\ ret = NoCall
    /\ ret' = [op |-> args.op,
               value |-> run_ingestion(args.has_ingestor, args.orchestrator_available,
                                       args.engine_raises)]
    /\ UNCHANGED <<args, runVars>>

CallProcessCsvInBatches ==
    /\ args.op = "process_csv_in_batches" /\ ret = NoCall
    /\ ret' = [op |-> args.op,
               value |-> process_csv_in_batches(args.file_exists, args.total_rows,
                             args.batch_size, args.raises_at, args.has_callback)]
    /\ UNCHANGED <<args, runVars>>

CallProcessBatch ==
    /\ args.op = "process_batch" /\ ret = NoCall
    /\ ret' = [op |-> args.op,
               value |-> process_batch(args.step_name, args.batch, args.store_raises)]
    /\ UNCHANGED <<args, runVars>>

\* the relation steps of one or more runs of run_complete_ingestion
CallRunCompleteIngestion ==
    /\ args.op = "run_complete_ingestion" /\ ret = NoCall
    /\ ret' = [op |-> args.op, value |-> fetches_of_runs(args.has_rows, args.runs)]
    /\ UNCHANGED <<args, runVars>>

CallShouldRunIngestionEffects ==
    /\ args.op = "should_run_ingestion_effects" /\ ret = NoCall
    /\ ret' = [op |-> args.op,
               value |-> should_run_ingestion_effects(args.config, args.force_reingest,
                                                      args.decision_raises)]
    /\ UNCHANGED <<args, runVars>>

NextCalls ==
    \/ CallRunCompleteIngestion
    \/ CallShouldRunIngestionEffects
    \/ CallRunIngestion
    \/ CallProcessCsvInBatches
    \/ CallProcessBatch
    \/ CallGetIngestionMetrics
    \/ CallVerifyCompletion
    \/ CallValidatePrerequisites
    \/ CallRelationMethod
    \/ CallIngestAndRelate
    \/ CallIngestEntities
    \/ CallIsTimestampStale
    \/ CallDetermineIngestionState
    \/ CallMakeIngestionDecision
    \/ CallShouldRunIngestion

SpecCalls == InitCalls /\ [][NextCalls]_vars

(***************************************************************************)
(* Claims on the decision functions (SpecCalls).                           *)
(***************************************************************************)
Returned(op) == ret.op = op
ForceRequested == args.force_reingest \/ args.config.force_reingest
RawStatus == get_status(args.status_data)
Timestamp == args.status_data.timestamp
Age == args.utcnow - Timestamp.t                     \* at the call's first clock read
AgeAtReturn == args.utcnow + args.elapsed - Timestamp.t  \* at its last

\* C1: a decision made with force re-ingestion requested has should_run = TRUE
\* and force_required = FALSE, for every state, list of existing classes, mode
\* and is_stale; through should_run_ingestion the same holds whether force is
\* the argument or config.force_reingest.
C1_ForceAlwaysRuns ==
    /\ (Returned("make_ingestion_decision") /\ args.force_reingest)
          => (ret.value.should_run /\ ~ret.value.force_required)
    /\ (Returned("should_run_ingestion") /\ ForceRequested)
          => (ret.value.should_run /\ ~ret.value.force_required)

C1_Witness ==
    /\ Returned("should_run_ingestion")
    /\ ~args.force_reingest /\ args.config.force_reingest
    /\ RawStatus = "completed"
    /\ ret.value.existing_classes # <<>>
    /\ ret.value.should_run

\* C2: without force, a status record whose status is completed makes
\* should_run_ingestion return should_run = FALSE, force_required = TRUE,
\* current_state = COMPLETED and a reason containing "already completed",
\* whatever the timestamp, the mode and the classes holding data.
C2_CompletedBlocks ==
    (Returned("should_run_ingestion") /\ ~ForceRequested /\ RawStatus = "completed")
        => /\ ~ret.value.should_run
           /\ ret.value.force_required
           /\ ret.value.current_state = COMPLETED
           /\ Contains(ret.value.reason, <<"already", "completed">>)

C2_Witness ==
    /\ Returned("should_run_ingestion") /\ ~ForceRequested /\ RawStatus = "completed"
    /\ Timestamp.form = "naive" /\ Age > args.config.staleness_threshold_seconds
    /\ args.config.is_interactive_mode
    /\ ret.value.existing_classes = <<>>
    /\ ~ret.value.should_run

\* C3: without force, for a status record in_progress whose timestamp parses:
\* if now - timestamp > staleness_threshold_seconds the decision is should_run =
\* TRUE, is_stale = TRUE, current_state = IN_PROGRESS with a reason mentioning
\* staleness; otherwise it is should_run = FALSE, force_required = TRUE,
\* is_stale = FALSE, current_state = IN_PROGRESS.  (A call during which the age
\* crosses the threshold is on neither side.)
C3_InProgressByAge ==
    (/\ Returned("should_run_ingestion") /\ ~ForceRequested
     /\ RawStatus = "in_progress"
     /\ fromisoformat(Timestamp, args.py).ok)
        => IF Age > args.config.staleness_threshold_seconds
           THEN /\ ret.value.should_run
                /\ ret.value.is_stale
                /\ ret.value.current_state = IN_PROGRESS
                /\ ContainsLower(ret.value.reason, <<"stale">>)
           ELSE AgeAtReturn <= args.config.staleness_threshold_seconds
                => /\ ~ret.value.should_run
                   /\ ret.value.force_required
                   /\ ~ret.value.is_stale
                   /\ ret.value.current_state = IN_PROGRESS

\* C4: determine_ingestion_state returns UNKNOWN for a record in_progress whose
\* timestamp is older than the threshold and IN_PROGRESS when its age is at
\* most the threshold; not_started, completed and failed map to their values
\* whatever the age; every unrecognised status maps to UNKNOWN.
C4_DetermineState ==
    Returned("determine_ingestion_state") =>
        /\ (RawStatus = "in_progress" /\ Timestamp.form \in {"naive", "zulu"})
              => ret.value = (IF Age > args.threshold THEN UNKNOWN ELSE IN_PROGRESS)
        /\ RawStatus \in {"not_started", "completed", "failed"} => ret.value = RawStatus
        /\ RawStatus \notin IngestionState => ret.value = UNKNOWN

\* C8: a record in_progress whose timestamp is missing or cannot be parsed is
\* treated as stale: determine_ingestion_state returns UNKNOWN and
\* should_run_ingestion without force returns should_run = TRUE.
Unparsed == Timestamp.form = "none" \/ ~fromisoformat(Timestamp, args.py).ok
C8_UnparsedIsStale ==
    /\ (Returned("determine_ingestion_state") /\ RawStatus = "in_progress" /\ Unparsed)
          => ret.value = UNKNOWN
    /\ (Returned("should_run_ingestion") /\ ~ForceRequested
        /\ RawStatus = "in_progress" /\ Unparsed)
          => ret.value.should_run

\* C9: without force and in a state other than COMPLETED and IN_PROGRESS,
\* make_ingestion_decision returns should_run = FALSE with force_required = TRUE
\* exactly when existing_classes is non-empty and the mode is non-interactive,
\* and should_run = TRUE in every other case.
C9_ExistingDataBlocksOnlyNonInteractive ==
    (/\ Returned("make_ingestion_decision") /\ ~args.force_reingest
     /\ args.current_state \in {NOT_STARTED, FAILED, UNKNOWN})
        => IF args.existing_classes # <<>> /\ ~args.is_interactive
           THEN ~ret.value.should_run /\ ret.value.force_required
           ELSE ret.value.should_run

C9_Witness ==
    /\ Returned("make_ingestion_decision") /\ ~args.force_reingest
    /\ args.current_state = FAILED
    /\ args.existing_classes # <<>> /\ ~args.is_interactive
    /\ ~ret.value.should_run /\ ret.value.force_required

(***************************************************************************)
(* Claims on competing invocations (Spec).                                 *)
(***************************************************************************)
RunThreshold == RunConfig(FALSE).staleness_threshold_seconds

\* p has just been handed a decision for which get_ingestion_status returned
\* an in_progress record written by set_ingestion_metadata
ReadInProgress(p) ==
    /\ pc[p] = "decided"
    /\ local[p].status = "in_progress"
    /\ decision[p].timestamp.form = "zulu"
AgeRead(p) == local[p].at - decision[p].timestamp.t

\* C5: a should_run_ingestion(force_reingest=False) call that reads back an
\* in_progress record written through set_ingestion_metadata, before
\* staleness_threshold_seconds have elapsed since that write, returns
\* should_run = FALSE with current_state = IN_PROGRESS.
C5_FreshHeartbeatKeepsOwnership ==
    \A p \in Procs :
        (ReadInProgress(p) /\ AgeRead(p) <= RunThreshold)
            => (~decision[p].should_run /\ decision[p].current_state = IN_PROGRESS)

\* C6: a should_run_ingestion(force_reingest=False) call that reads an
\* in_progress record whose heartbeat is more than staleness_threshold_seconds
\* old returns should_run = TRUE with is_stale = TRUE, in either mode and
\* whichever configured classes hold data.
C6_AbandonedRunIsRetried ==
    \A p \in Procs :
        (ReadInProgress(p) /\ AgeRead(p) > RunThreshold)
            => (decision[p].should_run /\ decision[p].is_stale)

C6_Witness ==
    \E p, q \in Procs :
        /\ pc[q] = "crashed"
        /\ ReadInProgress(p) /\ AgeRead(p) > RunThreshold
        /\ ~local[p].is_interactive
        /\ decision[p].existing_classes # <<>>
        /\ decision[p].should_run /\ decision[p].is_stale

\* C7: at most one process is executing pipeline steps at any time.
C7_AtMostOnePipeline ==
    Cardinality({p \in Procs : pc[p] \in InPipeline}) <= 1

\* C10: the steps run in the order of the script, each called only after the
\* one before it returned, none twice, and no relation step is called before
\* the five entity steps returned.
ScriptOrder ==
    << "ensure_schema", "ingest_isco_groups", "ingest_occupations", "ingest_skills",
       "ingest_skill_groups", "ingest_skill_collections", "create_skill_relations",
       "create_hierarchical_relations", "create_isco_group_relations",
       "create_skill_collection_relations", "create_skill_skill_relations",
       "create_broader_skill_relations" >>
EntitySteps ==
    {"ingest_isco_groups", "ingest_occupations", "ingest_skills",
     "ingest_skill_groups", "ingest_skill_collections"}
RelationSteps ==
    {"create_skill_relations", "create_hierarchical_relations",
     "create_isco_group_relations", "create_skill_collection_relations",
     "create_skill_skill_relations", "create_broader_skill_relations"}
ReturnedSteps(p) ==
    {results[p][i][1] : i \in {j \in DOMAIN results[p] : results[p][j][2] = "completed"}}
C10_StepsInScriptOrder ==
    \A p \in Procs :
        /\ Len(invoked[p]) <= Len(ScriptOrder)
        /\ invoked[p] = SubSeq(ScriptOrder, 1, Len(invoked[p]))
        /\ \A k \in DOMAIN invoked[p] :
              /\ k > 1 => invoked[p][k - 1] \in ReturnedSteps(p)
              /\ invoked[p][k] \in RelationSteps => EntitySteps \subseteq ReturnedSteps(p)
        /\ \A i \in DOMAIN results[p] : results[p][i][1] = invoked[p][i]

C10_Witness ==
    \E p \in Procs :
        /\ pc[p] = "complete"
        /\ Len(invoked[p]) = 12
        /\ ReturnedSteps(p) = Range(ScriptOrder)

(***************************************************************************)
(* Claims on one invocation's pipeline and result (SpecEntry).             *)
(***************************************************************************)
LastStep(p) == invoked[p][Len(invoked[p])]
StepRaised(p) == results[p] # <<>> /\ results[p][Len(results[p])][2] = "failed"
OrchestratorPositions == {"heartbeat", "step", "raising", "complete"}

\* C11: when a step raises (its results entry becomes "failed"), the loop is
\* left with that same exception, no further step is invoked, and the
\* orchestrator takes no step again after that.
C11_RaiseAbortsPipeline ==
    [][\A p \in Procs :
        /\ (Len(results'[p]) = Len(results[p]) + 1
              /\ results'[p][Len(results'[p])][2] = "failed")
            => /\ pc'[p] = "fail"
               /\ invoked'[p] = invoked[p]
               /\ results'[p][Len(results'[p])][1] = LastStep(p)
               /\ raised'[p] = LastStep(p)
        /\ (pc[p] = "fail" /\ StepRaised(p))
            => /\ pc'[p] \notin OrchestratorPositions
               /\ results'[p] \in {results[p], <<>>}
      ]_vars

C11_Witness ==
    \E p \in Procs :
        /\ pc[p] = "fail" /\ StepRaised(p)
        /\ Len(invoked[p]) = 4 /\ raised[p] = "ingest_skills"
        /\ ReturnedSteps(p) = {"ensure_schema", "ingest_isco_groups", "ingest_occupations"}

\* C12: a step function is entered only from the loop's head, in the same
\* move as a set_ingestion_metadata call with status in_progress and
\* details.step = the step's name, after the previous step returned; the move
\* is the same whether the write is stored or not.
C12_HeartbeatBeforeEachStep ==
    [][\A p \in Procs :
        (pc'[p] = "step" /\ pc[p] # "step")
            => /\ pc[p] = "heartbeat"
               /\ Len(invoked'[p]) = Len(invoked[p]) + 1
               /\ issued'[p] = StatusWrite("in_progress", invoked'[p][Len(invoked'[p])], "")
               /\ \E store_ok \in BOOLEAN :
                      meta' = set_ingestion_metadata(meta, "in_progress", now, store_ok)
               /\ Len(results[p]) = Len(invoked[p])
               /\ \A i \in DOMAIN results[p] : results[p][i][2] = "completed"
      ]_vars

\* the third step is running although no status write was ever stored
C12_Witness ==
    \E p \in Procs :
        /\ pc[p] = "step" /\ LastStep(p) = "ingest_occupations"
        /\ issued[p].step = "ingest_occupations"
        /\ ~meta.exists

\* C13: a result with success = TRUE is returned only from the position after
\* the twelfth step returned, together with the completed write, and carries
\* steps_completed = total_steps = 12 and final_state = COMPLETED; no invocation
\* issues the completed write before all its steps returned.
C13_SuccessOnlyAfterAllSteps ==
    [][\A p \in Procs :
        /\ (result'[p] # result[p] /\ result'[p].kind = "IngestionResult" /\ result'[p].success)
            => /\ pc[p] = "complete"
               /\ Len(results[p]) = 12 /\ ReturnedSteps(p) = Range(steps)
               /\ issued'[p].status = "completed"
               /\ result'[p].steps_completed = 12 /\ result'[p].total_steps = 12
               /\ result'[p].final_state = COMPLETED
        /\ (issued'[p].status = "completed" /\ issued[p].status # "completed")
            => ReturnedSteps(p) = Range(steps)
      ]_vars

C13_Witness ==
    \E p \in Procs :
        /\ pc[p] = "done"
        /\ result[p].kind = "IngestionResult" /\ result[p].success
        /\ issued[p].status = "completed"
        /\ meta.status = "completed"

\* C14: an exception raised by a call a step makes fails the run: the step's
\* entry becomes "failed", and run_ingestion writes failed with the exception
\* text in details.error and returns success = FALSE, final_state = FAILED with
\* that text in errors.
C14_StoreErrorFailsRun ==
    [][\A p \in Procs :
        /\ (pc[p] = "raising" /\ pc'[p] \notin {"raising", "crashed"})
            => /\ pc'[p] = "fail"
               /\ results'[p][Len(results'[p])] = <<LastStep(p), "failed">>
        /\ (pc[p] = "fail" /\ entry[p] = "run_ingestion" /\ pc'[p] = "done")
            => /\ result'[p].kind = "IngestionResult"
               /\ ~result'[p].success /\ result'[p].final_state = FAILED
               /\ result'[p].errors = <<raised[p]>>
               /\ issued'[p] = StatusWrite("failed", "", raised[p])
      ]_vars

\* C15: when step k raised, the result returned has steps_completed = k - 1
\* and final_state = FAILED, and nothing written to the store is removed.
C15_StepsCompletedCountsFinished ==
    [][\A p \in Procs :
        (pc[p] = "fail" /\ StepRaised(p)
           /\ result'[p] # result[p] /\ result'[p].kind = "IngestionResult")
            => /\ result'[p].steps_completed = Len(results[p]) - 1
               /\ result'[p].final_state = FAILED
               /\ objects \subseteq objects'
      ]_vars

\* C16: a run_ingestion call all of whose steps returned reports success =
\* TRUE with final_state = COMPLETED, also when the completed write raises.
C16_TerminalWriteDoesNotMask ==
    [][\A p \in Procs :
        (ReturnedSteps(p) = Range(steps)
           /\ result'[p] # result[p] /\ result'[p].kind = "IngestionResult")
            => (result'[p].success /\ result'[p].final_state = COMPLETED)
      ]_vars

\* C17: run_ingestion's except clause always ends in a returned result with
\* success = FALSE and final_state = FAILED whose errors hold the text of the
\* exception of the step that raised, whether or not the failed write is
\* stored; and run_ingestion enters the pipeline whether or not its first
\* in_progress write is stored.
C17_NothingPropagates ==
    [][\A p \in Procs :
        /\ (pc[p] = "fail" /\ entry[p] = "run_ingestion" /\ pc'[p] \notin {"fail", "crashed"})
            => /\ pc'[p] = "done"
               /\ result'[p].kind = "IngestionResult"
               /\ ~result'[p].success /\ result'[p].final_state = FAILED
               /\ StepRaised(p) => result'[p].errors = <<LastStep(p)>>
        /\ (pc[p] = "decided" /\ decision[p].should_run /\ pc'[p] # "decided")
            => pc'[p] = "heartbeat"
      ]_vars

\* the step's text is returned although the failed write was not stored
C17_Witness ==
    \E p \in Procs :
        /\ pc[p] = "done"
        /\ result[p].kind = "IngestionResult" /\ ~result[p].success
        /\ result[p].errors = <<"ingest_skills">>
        /\ issued[p].status = "failed"
        /\ ~meta.exists

\* C18: once a step has raised, the invocation only finishes: it executes no
\* ingestion step again, with the orchestrator or with another engine.
C18_NoRetryWithinInvocation ==
    [][\A p \in Procs :
        (pc[p] = "fail" /\ StepRaised(p)) => pc'[p] \in {"fail", "done", "crashed"}
      ]_vars

\* C19: while the store answers, an invocation that ran a pipeline and has
\* returned leaves the status record at completed or failed, and at completed
\* when init_ingestion returned 0.
C19_FinishedInvocationFinalizes ==
    \A p \in Procs :
        (pc[p] = "done" /\ result[p].kind # "none" /\ ~store_faults)
            => /\ meta.status \in {"completed", "failed"}
               /\ result[p] = ExitCode(0) => meta.status = "completed"

(***************************************************************************)
(* Claims on the entity objects (SpecCalls).                               *)
(***************************************************************************)
\* C20: after an entity step ingested its rows, once or twice, the store holds
\* exactly one object for the URI of each row, and its identifier is the last
\* path segment of that URI.
C20_OneObjectPerUri ==
    Returned("ingest_entities") =>
        \A i \in DOMAIN args.rows :
            LET stored == {o \in ret.value : o.uri = args.rows[i]}
            IN  /\ Cardinality(stored) = 1
                /\ \A o \in stored : o.id = last_path_segment(args.rows[i])

(***************************************************************************)
(* Claims on the relation methods (SpecCalls).                             *)
(***************************************************************************)
\* the frame the method's loop runs over, and whether it reaches the loop
LoopFrame == standardized(args.method, args.file)
ReachesLoop ==
    /\ args.file.exists
    /\ required_columns(args.method) \subseteq LoopFrame.columns
    /\ {from_column(args.method), to_column(args.method)} \subseteq LoopFrame.columns
    /\ LoopFrame.rows # <<>>
FromUuid(i) == last_path_segment(LoopFrame.rows[i].uris[from_column(args.method)])
ToUuid(i) == last_path_segment(LoopFrame.rows[i].uris[to_column(args.method)])
RowPresent(i) ==
    /\ FromUuid(i) \in args.uuids[from_class(args.method)]
    /\ ToUuid(i) \in args.uuids[to_class(args.method)]
PresentRows == {i \in DOMAIN LoopFrame.rows : RowPresent(i)}
QueuedRefs == IF ret.value.batches = <<>> THEN <<>> ELSE ret.value.batches[1]

\* C21: in a file-based relation method, every row with an endpoint absent
\* from the pre-fetched sets adds exactly one to the skip counter and yields no
\* reference, the other rows are all submitted, and every reference submitted
\* has both endpoints in the pre-fetched sets of its classes.
C21_AbsentEndpointIsSkipped ==
    (Returned("relation_method") /\ ReachesLoop)
        => /\ ret.value.skipped = Cardinality(DOMAIN LoopFrame.rows \ PresentRows)
           /\ Len(QueuedRefs) = Cardinality(PresentRows)
           /\ Len(ret.value.batches) = (IF PresentRows = {} THEN 0 ELSE 1)
           /\ \A k \in DOMAIN QueuedRefs :
                 /\ QueuedRefs[k].from_uuid \in args.uuids[QueuedRefs[k].from_class]
                 /\ QueuedRefs[k].to_uuid \in args.uuids[QueuedRefs[k].to_class]

\* the first row is skipped and the second is still submitted
C21_Witness ==
    /\ Returned("relation_method") /\ ReachesLoop
    /\ args.method = "create_hierarchical_relations"
    /\ Len(LoopFrame.rows) = 2 /\ ~RowPresent(1) /\ RowPresent(2)
    /\ ret.value.skipped = 1 /\ Len(QueuedRefs) = 1

\* the reference create_skill_relations is to queue for row i
ExpectedSkillRef(i) ==
    [from_class |-> "Occupation", from_uuid |-> FromUuid(i),
     ref_property |-> IF LoopFrame.rows[i].relationType = "optional"
                      THEN "hasOptionalSkill" ELSE "hasEssentialSkill",
     to_class |-> "Skill", to_uuid |-> ToUuid(i)]

\* C22: create_skill_relations queues one reference per row with both
\* endpoints present, from the Occupation to the Skill, with hasOptionalSkill
\* for relationType "optional" and hasEssentialSkill for every other value.
C22_SkillRelationProperty ==
    (Returned("relation_method") /\ ReachesLoop /\ args.method = "create_skill_relations")
        => /\ Len(QueuedRefs) = Cardinality(PresentRows)
           /\ \A i \in PresentRows :
                 Cardinality({k \in DOMAIN QueuedRefs : QueuedRefs[k] = ExpectedSkillRef(i)})
                   = Cardinality({j \in PresentRows : ExpectedSkillRef(j) = ExpectedSkillRef(i)})

C22_Witness ==
    /\ Returned("relation_method") /\ ReachesLoop /\ args.method = "create_skill_relations"
    /\ Len(LoopFrame.rows) = 2 /\ PresentRows = {1, 2}
    /\ LoopFrame.rows[1].relationType = "optional" /\ LoopFrame.rows[2].relationType = "x"
    /\ QueuedRefs[1].ref_property = "hasOptionalSkill"
    /\ QueuedRefs[2].ref_property = "hasEssentialSkill"

ConfiguredClasses == Range(classes_to_ingest(args.config))
Counted == {c \in ConfiguredClasses : ~args.probe[c].raises}
RECURSIVE SumOfCounts(_)
SumOfCounts(classes) ==
    IF classes = {} THEN 0
    ELSE LET c == CHOOSE x \in classes : TRUE
         IN  args.probe[c].count + SumOfCounts(classes \ {c})

\* C24: get_ingestion_metrics reports for every configured class its count,
\* or -1 when its probe raises, and total_objects is the sum of the counts of
\* the classes whose probe returned.
C24_MetricsSentinel ==
    Returned("get_ingestion_metrics")
        => /\ DOMAIN ret.value.class_counts = ConfiguredClasses
           /\ \A c \in ConfiguredClasses :
                 ret.value.class_counts[c] = (IF args.probe[c].raises THEN -1 ELSE args.probe[c].count)
           /\ ret.value.total_objects = SumOfCounts(Counted)

\* one probe raises, the other class's count is reported and is the total
C24_Witness ==
    /\ Returned("get_ingestion_metrics")
    /\ args.probe["Occupation"].raises
    /\ "Skill" \in Counted /\ args.probe["Skill"].count = MaxCount
    /\ ret.value.class_counts["Occupation"] = -1
    /\ ret.value.total_objects = MaxCount

ResolvedState ==
    determine_ingestion_state(args.status_data, args.config.staleness_threshold_seconds,
                              args.utcnow, args.py)
WithoutData == {c \in ConfiguredClasses : args.probe[c].raises \/ args.probe[c].count = 0}
Reported(findings) == {findings[i][1] : i \in DOMAIN findings}

\* C25: verify_completion is invalid and probes no class when the resolved
\* state is not COMPLETED; when it is COMPLETED the result is valid, and every
\* class that is empty or whose probe raises is a warning, never an error.
C25_VerifyCompletion ==
    Returned("verify_completion")
        => /\ ResolvedState # COMPLETED => (~ret.value.is_valid /\ ret.value.calls = <<>>)
           /\ ResolvedState = COMPLETED =>
                 /\ ret.value.is_valid /\ ret.value.errors = <<>>
                 /\ Reported(ret.value.warnings) = WithoutData

\* completed, every configured class without data, still valid
C25_Witness ==
    /\ Returned("verify_completion") /\ ResolvedState = COMPLETED
    /\ Cardinality(ConfiguredClasses) = 2 /\ WithoutData = ConfiguredClasses
    /\ args.probe["Occupation"].raises /\ ~args.probe["Skill"].raises
    /\ ret.value.is_valid /\ Len(ret.value.warnings) = 2

\* a stale in_progress record: invalid, nothing probed
C25_WitnessStale ==
    /\ Returned("verify_completion")
    /\ args.status_data.status = "in_progress" /\ ResolvedState = UNKNOWN
    /\ ~ret.value.is_valid /\ ret.value.calls = <<>>

\* C26: validate_prerequisites is invalid when is_connected() is false or
\* raises, having called nothing else; when ensure_schema raises it is invalid
\* with the exception message among its errors, and the configuration and
\* data-file checks are not run.
C26_PrerequisitesShortCircuit ==
    Returned("validate_prerequisites")
        => /\ args.is_connected # "true" =>
                 /\ ~ret.value.is_valid
                 /\ ret.value.calls = <<"is_connected">>
                 /\ ret.value.checks_performed = <<"weaviate_connectivity">>
           /\ (args.is_connected = "true" /\ args.ensure_schema = "raises") =>
                 /\ ~ret.value.is_valid
                 /\ ret.value.errors = << <<"Schema setup failed:", args.e>> >>
                 /\ ret.value.calls = <<"is_connected", "ensure_schema">>
                 /\ ret.value.checks_performed = <<"weaviate_connectivity", "schema_validation">>

\* the schema check raises on a configuration that would not validate either
C26_Witness ==
    /\ Returned("validate_prerequisites")
    /\ args.is_connected = "true" /\ args.ensure_schema = "raises"
    /\ args.config_outcome = "invalid"
    /\ Len(ret.value.errors) = 1 /\ ~ret.value.is_valid

\* the rows of the relation file whose two endpoint URIs are rows of the
\* entity files of their classes
IngestedRows ==
    {i \in DOMAIN args.file.rows :
        /\ args.file.rows[i].uris[from_column(args.method)] \in Range(args.entity_rows[from_class(args.method)])
        /\ args.file.rows[i].uris[to_column(args.method)] \in Range(args.entity_rows[to_class(args.method)])}

\* C29: a relation method run after the entity steps of the same run queues a
\* reference for every row whose two endpoint URIs were ingested, and skips
\* only the others.
C29_IngestedEndpointsAreLinked ==
    (Returned("ingest_and_relate") /\ args.file.exists)
        => /\ Len(QueuedRefs) = Cardinality(IngestedRows)
           /\ ret.value.skipped = Len(args.file.rows) - Cardinality(IngestedRows)

(***************************************************************************)
(* Claims on the decision and the status record across invocations.        *)
(***************************************************************************)
ConfiguredInRun == Range(classes_to_ingest(RunConfig(FALSE)))

\* C27: with no status record in the store and no object of a configured
\* class, should_run_ingestion answers should_run with current_state
\* NOT_STARTED and a reason containing "No existing data".
C27_NotStartedWithoutRecord ==
    \A p \in Procs :
        (pc[p] = "decided" /\ ~meta.exists /\ objects \cap ConfiguredInRun = {})
            => /\ decision[p].should_run
               /\ decision[p].current_state = NOT_STARTED
               /\ Contains(decision[p].reason, <<"No", "existing", "data">>)

\* C28: a should_run_ingestion(force_reingest=False) that reads the status
\* failed answers should_run, in either mode and whatever the failed run
\* left in the store.
C28_FailedRunIsRetried ==
    \A p \in Solo :
        (pc[p] = "decided" /\ local[p].status = "failed") => decision[p].should_run

\* C30: a status record that reads completed stops reading completed only
\* by the in_progress write with which run_ingestion begins a new run.
C30_CompletedStaysCompleted ==
    [][(meta.exists /\ meta.status = "completed" /\ meta'.status # "completed")
          => \E p \in Procs : pc[p] = "decided" /\ pc'[p] = "heartbeat"]_vars

(***************************************************************************)
(* Claims on the engine, the batch reader and process_batch (SpecCalls).   *)
(***************************************************************************)
\* C31: run_ingestion runs the orchestrator whenever it is available and
\* the legacy ingestor only when it is not; exactly one engine runs.
C31_OrchestratorPreferred ==
    Returned("run_ingestion")
        => ret.value.engines = (IF args.orchestrator_available
                                THEN <<"run_complete_ingestion">>
                                ELSE <<"run_simple_ingestion">>)

BatchesExpected == (args.total_rows + args.batch_size - 1) \div args.batch_size
RaisesInFile == args.file_exists /\ args.raises_at \in 1..BatchesExpected

\* C34: while a file of N rows is processed with a heartbeat callback, the
\* callback is called at least floor(N / 1000) times.
C34_HeartbeatEveryThousandRows ==
    (Returned("process_csv_in_batches") /\ args.file_exists /\ args.has_callback
       /\ ~RaisesInFile)
        => Len(ret.value.heartbeats) >= args.total_rows \div HeartbeatRows

\* C35: process_csv_in_batches calls process_func ceil(N / B) times on
\* consecutive slices from row 0 to row N, each of B rows except possibly the
\* last; a raising call is the last call and the exception propagates; for a
\* missing file nothing is called and nothing is raised.
C35_BatchSlices ==
    Returned("process_csv_in_batches")
        => LET calls == ret.value.calls
           IN  /\ ~args.file_exists =>
                     (calls = <<>> /\ ret.value.heartbeats = <<>> /\ ~ret.value.raised)
               /\ args.file_exists =>
                     /\ ret.value.raised = RaisesInFile
                     /\ Len(calls) = (IF RaisesInFile THEN args.raises_at ELSE BatchesExpected)
                     /\ \A k \in DOMAIN calls :
                           /\ calls[k].start = (IF k = 1 THEN 0 ELSE calls[k - 1].end)
                           /\ calls[k].start < calls[k].end
                           /\ calls[k].end <= args.total_rows
                           /\ (k < BatchesExpected => calls[k].end - calls[k].start = args.batch_size)
                           /\ (k = BatchesExpected =>
                                  /\ calls[k].end = args.total_rows
                                  /\ calls[k].end - calls[k].start <= args.batch_size)

\* a last slice shorter than the others
C35_Witness ==
    /\ Returned("process_csv_in_batches") /\ args.file_exists
    /\ args.total_rows = 4 /\ args.batch_size = 3 /\ args.raises_at = 0
    /\ Len(ret.value.calls) = 2
    /\ ret.value.calls[2] = [start |-> 3, end |-> 4]

\* a raising batch ends the processing
C35_WitnessRaise ==
    /\ Returned("process_csv_in_batches") /\ args.file_exists
    /\ args.total_rows = 4 /\ args.batch_size = 1 /\ args.raises_at = 2
    /\ Len(ret.value.calls) = 2 /\ ret.value.raised

ValidRecords == {i \in DOMAIN args.batch : args.batch[i] # Malformed}

\* C36: process_batch skips a record whose transformation raises and submits
\* the other records of the batch, in source order, in one batch_add_objects
\* call; it makes no call when no record is valid; an exception of
\* batch_add_objects is raised on.
C36_MalformedRecordIsSkipped ==
    Returned("process_batch")
        => /\ Len(ret.value.calls) = (IF ValidRecords = {} THEN 0 ELSE 1)
           /\ ret.value.raised = (ValidRecords # {} /\ args.store_raises)
           /\ ValidRecords # {} =>
                 LET objs == ret.value.calls[1].objects
                 IN  /\ Len(objs) = Cardinality(ValidRecords)
                     /\ \A i \in ValidRecords :
                           objs[Cardinality({j \in ValidRecords : j <= i})].uri = args.batch[i]

\* a malformed record before a valid one
C36_Witness ==
    /\ Returned("process_batch")
    /\ Len(args.batch) = 2 /\ args.batch[1] = Malformed /\ args.batch[2] # Malformed
    /\ Len(ret.value.calls) = 1 /\ Len(ret.value.calls[1].objects) = 1

(***************************************************************************)
(* Claims on the broader-skill relations, the identifier cache and the     *)
(* decision (SpecCalls).                                                   *)
(***************************************************************************)
\* the rows of a broader-skill file whose concept and broader skill are both
\* in the Skill identifier set
BroaderPresent ==
    {i \in DOMAIN args.file.rows :
        /\ last_path_segment(args.file.rows[i].uris["conceptUri"]) \in args.uuids["Skill"]
        /\ last_path_segment(args.file.rows[i].uris["broaderUri"]) \in args.uuids["Skill"]}

\* C33: create_broader_skill_relations on a file with the columns conceptUri
\* and broaderUri queues one broaderSkill reference per row whose two
\* endpoints are Skill identifiers and submits them in one call.
C33_BroaderSkillFromConceptUri ==
    (/\ Returned("relation_method")
     /\ args.method = "create_broader_skill_relations"
     /\ args.file.exists /\ args.file.columns = {"conceptUri", "broaderUri"})
        => /\ Len(QueuedRefs) = Cardinality(BroaderPresent)
           /\ Len(ret.value.batches) = (IF BroaderPresent = {} THEN 0 ELSE 1)
           /\ \A k \in DOMAIN QueuedRefs : QueuedRefs[k].ref_property = "broaderSkill"

EntityStepIndexes == {i \in DOMAIN steps : EntityClassOf(steps[i]) # ""}

\* C37: in a run of run_complete_ingestion get_all_uuids is called at most
\* once per class, every call is made by a step that comes after the five
\* entity steps, and a following run fetches again what the run before it
\* fetched.
C37_FetchOncePerClass ==
    Returned("run_complete_ingestion")
        => \A r \in DOMAIN ret.value :
              LET fetches == ret.value[r]
              IN  /\ \A i, j \in DOMAIN fetches : fetches[i][1] = fetches[j][1] => i = j
                  /\ \A i \in DOMAIN fetches : \A e \in EntityStepIndexes : fetches[i][2] > e
                  /\ fetches = ret.value[1]
                  /\ {fetches[i][1] : i \in DOMAIN fetches}
                       = UNION {Range(prefetch_classes(method)) :
                                   method \in {x \in RelationMethods : args.has_rows[x]}}

\* every method has rows, two runs: three fetches in each
C37_Witness ==
    /\ Returned("run_complete_ingestion")
    /\ \A method \in RelationMethods : args.has_rows[method]
    /\ Len(ret.value) = 2
    /\ Len(ret.value[1]) = 3 /\ Len(ret.value[2]) = 3

ProbedClasses == classes_to_ingest(args.config)

\* C38: should_run_ingestion returns a decision when count probes raise, and
\* its existing_classes are the configured classes whose probe returned a
\* positive count, in configuration order.
C38_RaisingProbeIsNoData ==
    Returned("should_run_ingestion")
        => LET existing == ret.value.existing_classes
           IN  /\ Range(existing) = {c \in Range(ProbedClasses) : args.probe[c] = "some"}
               /\ Len(existing) = Cardinality(Range(existing))
               /\ \A i, j \in DOMAIN existing :
                     i < j => \E k, l \in DOMAIN ProbedClasses :
                                 k < l /\ ProbedClasses[k] = existing[i] /\ ProbedClasses[l] = existing[j]

\* the first class's probe raises, the second class is still reported
C38_Witness ==
    /\ Returned("should_run_ingestion")
    /\ Len(ProbedClasses) = 2
    /\ args.probe[ProbedClasses[1]] = "raises" /\ args.probe[ProbedClasses[2]] = "some"
    /\ ret.value.existing_classes = <<ProbedClasses[2]>>

\* C39: every decision of make_ingestion_decision and of
\* should_run_ingestion has force_required = not should_run.
C39_ForceRequiredIffBlocked ==
    (Returned("make_ingestion_decision") \/ Returned("should_run_ingestion"))
        => ret.value.force_required = ~ret.value.should_run

\* a blocking decision of should_run_ingestion on a completed record
C39_Witness ==
    /\ Returned("should_run_ingestion")
    /\ ~ret.value.should_run /\ ret.value.force_required
    /\ ret.value.current_state = COMPLETED

\* C40: should_run_ingestion writes nothing to the store and leaves
\* config.force_reingest as it found it, also when the decision logic raises.
C40_ShouldRunIsReadOnly ==
    Returned("should_run_ingestion_effects")
        => /\ ret.value.store_writes = <<>>
           /\ ret.value.config = args.config
           /\ meta = NoMetadata /\ objects = {}

\* the argument forces, the config does not, and the decision logic raises
C40_Witness ==
    /\ Returned("should_run_ingestion_effects")
    /\ args.force_reingest /\ ~args.config.force_reingest /\ args.decision_raises
    /\ ret.value.raised /\ ~ret.value.config.force_reingest

(***************************************************************************)
(* SpecWriters: concurrent calls of set_ingestion_metadata, each in its    *)
(* two store calls: get_by_id, then update or create under the fixed       *)
(* identifier.  The store keeps one object per identifier: create raises   *)
(* when the identifier is taken.  No store call fails otherwise.           *)
(***************************************************************************)
WriteStatuses == {"in_progress", "completed", "failed"}

\* set_ingestion_metadata(status): props are built (timestamp = utcnow) and
\* get_by_id answers the object or None
WriterGets(p) ==
    /\ pc[p] = "idle"
    /\ \E status \in WriteStatuses :
          issued' = [issued EXCEPT ![p] = StatusWrite(status, "", "")]
    /\ local' = [local EXCEPT ![p] =
                    [status |-> IF meta.exists THEN meta.status ELSE KeyAbsent,
                     at |-> now, is_interactive |-> FALSE]]
    /\ pc' = [pc EXCEPT ![p] = "writing"]
    /\ UNCHANGED <<callVars, now, store_faults, meta, objects, decision, invoked, results, entry, raised, result>>

\* the call returns
WriterReturns(p) ==
    /\ ret' = [op |-> "set_ingestion_metadata", value |-> issued[p].status]
    /\ issued' = [issued EXCEPT ![p] = NoWrite]
    /\ local' = [local EXCEPT ![p] = NoInvocation]
    /\ pc' = [pc EXCEPT ![p] = "idle"]
    /\ UNCHANGED <<args, now, store_faults, objects, decision, invoked, results, entry, raised, result>>

\* "if existing": data_object.update
WriterUpdates(p) ==
    /\ pc[p] = "writing" /\ local[p].status # KeyAbsent
    /\ meta' = set_ingestion_metadata(meta, issued[p].status, local[p].at, TRUE)
    /\ WriterReturns(p)

\* "else": data_object.create, the identifier still free
WriterCreates(p) ==
    /\ pc[p] = "writing" /\ local[p].status = KeyAbsent /\ ~meta.exists
    /\ meta' = set_ingestion_metadata(meta, issued[p].status, local[p].at, TRUE)
    /\ WriterReturns(p)

\* "else": data_object.create raises because the identifier was taken since
\* get_by_id; the except clause's second create raises as well and the warning
\* "Failed to set ingestion metadata" is logged
WriterCreateRejected(p) ==
    /\ pc[p] = "writing" /\ local[p].status = KeyAbsent /\ meta.exists
    /\ meta' = meta
    /\ WriterReturns(p)

NextWriters ==
    \/ Tick
    \/ \E p \in Procs :
        \/ WriterGets(p)
        \/ WriterUpdates(p)
        \/ WriterCreates(p)
        \/ WriterCreateRejected(p)

SpecWriters == InitStoreUp /\ [][NextWriters]_vars

\* C32: whenever a set_ingestion_metadata call has returned,
\* get_ingestion_status answers the status of the call that returned last.
C32_LastWriteWins ==
    Returned("set_ingestion_metadata")
        => get_ingestion_status(meta, TRUE).status = ret.value

====
